---- MODULE Spec2Model ----
(***************************************************************************)
(* Model of gdrive/drive_tools.py: the Drive tool handlers as state        *)
(* machines.  One public operation runs per behaviour; pc is its position  *)
(* (the suspension points are the awaited API calls), args are the         *)
(* caller's arguments, local the handler's local variables, calls the API  *)
(* requests issued so far, in order, and outcome what the handler returned *)
(* or raised.  Text is a sequence of atoms (characters, or literal pieces  *)
(* of the source's f-strings).                                             *)
(***************************************************************************)
EXTENDS Integers, Sequences, FiniteSets, TLC

VARIABLES op, pc, args, local, env, calls, outcome

vars == <<op, pc, args, local, env, calls, outcome>>

(***************************************************************************)
(* Bounds of the model.                                                    *)
(***************************************************************************)
MaxQueryLen == 3
MaxNameLen == 3
MaxChunks == 2
MaxRecipients == 3
MaxParentLen == 3

(***************************************************************************)
(* Values and text helpers.                                                *)
(***************************************************************************)
None == "None"

NoLocals == [unset |-> TRUE]

Running == [kind |-> "running"]

SeqsUpTo(S, n) == UNION {[1..k -> S] : k \in 0..n}

\* Python truth of an optional string: neither None nor empty.
Truthy(x) == x # None /\ x # ""

\* str.replace(old, new) for a one-atom pattern: left to right, every occurrence.
RECURSIVE StrReplaceKeep(_, _, _)
StrReplaceKeep(s, old, new) ==
    IF s = <<>> THEN <<>>
    ELSE <<Head(s)>> \o StrReplaceKeep(Tail(s), old, new)

RECURSIVE StrReplace(_, _, _)
StrReplace(s, old, new) ==
    IF s = <<>> THEN <<>>
    ELSE (IF Head(s) = old THEN new ELSE <<Head(s)>>)
             \o StrReplace(Tail(s), old, new)

(***************************************************************************)
(* search_drive_files                                                      *)
(***************************************************************************)
\* Atoms a query is made of: plain characters, the quote, the backslash and
\* two Drive query operators.
QueryAtoms == {"b", "'", "\\", "=", "contains"}

Queries == SeqsUpTo(QueryAtoms, MaxQueryLen)

\* gdrive.drive_helpers.DRIVE_QUERY_PATTERNS: the operators whose presence
\* makes a query structured (field comparisons, boolean operators, in parents).
DRIVE_QUERY_PATTERNS == {"=", "contains", "and", "in parents"}

is_structured_query(query) ==
    \E i \in 1..Len(query) : query[i] \in DRIVE_QUERY_PATTERNS

final_query(query) ==
    IF is_structured_query(query)
    THEN query
    ELSE <<"fullText contains '">> \o StrReplace(query, "'", <<"\\", "'">>) \o <<"'">>

\* gdrive.drive_helpers.build_drive_list_params
build_drive_list_params(query, page_size, drive_id, include_items_from_all_drives, corpora) ==
    [api |-> "files.list",
     q |-> query,
     pageSize |-> page_size,
     driveId |-> drive_id,
     includeItemsFromAllDrives |->
         IF drive_id # None THEN TRUE ELSE include_items_from_all_drives,
     corpora |-> IF corpora # None THEN corpora
                 ELSE IF drive_id # None THEN "drive" ELSE None]

search_Init ==
    /\ op = "search_drive_files"
    /\ pc = "start"
    /\ args \in [query : Queries,
                 page_size : {10},
                 drive_id : {None, "drive1"},
                 include_items_from_all_drives : BOOLEAN,
                 corpora : {None, "user"}]
    /\ local = NoLocals
    /\ env = NoLocals
    /\ calls = <<>>
    /\ outcome = Running

\* Lines 79-104: classify, build the final query and issue files().list.
search_build_and_list ==
    /\ op = "search_drive_files" /\ pc = "start"
    /\ local' = [final_query |-> final_query(args.query)]
    /\ calls' = Append(calls,
                   build_drive_list_params(final_query(args.query), args.page_size,
                       args.drive_id, args.include_items_from_all_drives, args.corpora))
    /\ pc' = "list"
    /\ UNCHANGED <<op, args, env, outcome>>

\* Lines 104-118: the listing returns some files or none; the result is text.
search_list_returns ==
    /\ op = "search_drive_files" /\ pc = "list"
    /\ \E n \in 0..1 :
         outcome' = [kind |-> "return",
                     text |-> IF n = 0 THEN "No files found" ELSE "Found files"]
    /\ pc' = "done"
    /\ UNCHANGED <<op, args, local, env, calls>>

\* Line 104: the listing call fails; the failure leaves the handler.
search_list_fails ==
    /\ op = "search_drive_files" /\ pc = "list"
    /\ outcome' = [kind |-> "raise", error |-> "HttpError"]
    /\ pc' = "done"
    /\ UNCHANGED <<op, args, local, env, calls>>

search_Next ==
    \/ search_build_and_list
    \/ search_list_returns
    \/ search_list_fails

SpecSearch == search_Init /\ [][search_Next]_vars

(***************************************************************************)
(* C1: in search_drive_files a query matching a structured-query pattern   *)
(* is sent to files.list unchanged; any other query is sent as             *)
(* fullText contains '<q>' with every single quote of the input preceded   *)
(* by one backslash and nothing else changed; nothing is raised before the *)
(* listing call is issued.                                                 *)
(***************************************************************************)
\* The input with a backslash put before each single quote, built from the end.
RECURSIVE QuoteEscaped(_)
QuoteEscaped(q) ==
    IF Len(q) = 0 THEN <<>>
    ELSE LET front == QuoteEscaped(SubSeq(q, 1, Len(q) - 1))
             last == q[Len(q)]
         IN IF last = "'" THEN front \o <<"\\", "'">> ELSE Append(front, last)

C1_QuerySent ==
    op = "search_drive_files" =>
        /\ (outcome.kind = "raise" => Len(calls) = 1)
        /\ Len(calls) <= 1
        /\ Len(calls) = 1 =>
             /\ calls[1].api = "files.list"
             /\ is_structured_query(args.query) => calls[1].q = args.query
             /\ ~is_structured_query(args.query) =>
                  calls[1].q = <<"fullText contains '">> \o QuoteEscaped(args.query) \o <<"'">>

\* A free-text query holding a single quote has been sent.
C1_Witness ==
    /\ op = "search_drive_files" /\ pc = "list"
    /\ ~is_structured_query(args.query)
    /\ \E i \in 1..Len(args.query) : args.query[i] = "'"
    /\ Len(calls) = 1

(***************************************************************************)
(* The Drive the handlers talk to: a fixed set of items.  A shortcut       *)
(* carries the id of its target; "gone" is an id the API does not know and *)
(* "secret1" an item the caller may not read.                              *)
(***************************************************************************)
MIME_DOCUMENT == "application/vnd.google-apps.document"
MIME_SPREADSHEET == "application/vnd.google-apps.spreadsheet"
MIME_PRESENTATION == "application/vnd.google-apps.presentation"
MIME_FOLDER == "application/vnd.google-apps.folder"
SHORTCUT_MIME_TYPE == "application/vnd.google-apps.shortcut"
MIME_PDF == "application/pdf"
MIME_DOCX == "application/vnd.openxmlformats-officedocument.wordprocessingml.document"
MIME_XLSX == "application/vnd.openxmlformats-officedocument.spreadsheetml.sheet"
MIME_PPTX == "application/vnd.openxmlformats-officedocument.presentationml.presentation"
MIME_CSV == "text/csv"
MIME_TEXT == "text/plain"

DriveItems ==
    [doc1     |-> [mimeType |-> MIME_DOCUMENT,      targetId |-> None,    readable |-> TRUE],
     sheet1   |-> [mimeType |-> MIME_SPREADSHEET,   targetId |-> None,    readable |-> TRUE],
     slides1  |-> [mimeType |-> MIME_PRESENTATION,  targetId |-> None,    readable |-> TRUE],
     pdf1     |-> [mimeType |-> MIME_PDF,           targetId |-> None,    readable |-> TRUE],
     word1    |-> [mimeType |-> MIME_DOCX,          targetId |-> None,    readable |-> TRUE],
     folder1  |-> [mimeType |-> MIME_FOLDER,        targetId |-> None,    readable |-> TRUE],
     secret1  |-> [mimeType |-> MIME_PDF,           targetId |-> None,    readable |-> FALSE],
     sc_doc1  |-> [mimeType |-> SHORTCUT_MIME_TYPE, targetId |-> "doc1",  readable |-> TRUE],
     sc_pdf1  |-> [mimeType |-> SHORTCUT_MIME_TYPE, targetId |-> "pdf1",  readable |-> TRUE],
     sc_dir1  |-> [mimeType |-> SHORTCUT_MIME_TYPE, targetId |-> "folder1", readable |-> TRUE],
     sc_gone  |-> [mimeType |-> SHORTCUT_MIME_TYPE, targetId |-> "gone",  readable |-> TRUE],
     sc_sc    |-> [mimeType |-> SHORTCUT_MIME_TYPE, targetId |-> "sc_doc1", readable |-> TRUE]]

DriveIds == DOMAIN DriveItems

\* Ids a caller may pass: every item and one unknown id.
CallerIds == DriveIds \cup {"gone"}

\* The files().get lookup the resolver issues for one id.
ResolverGet(id) == [api |-> "files.get", site |-> "resolve_drive_item", fileId |-> id]

LookupError(id) ==
    IF id \notin DriveIds THEN "NotFound"
    ELSE IF ~DriveItems[id].readable THEN "PermissionDenied"
    ELSE None

\* gdrive.drive_helpers.resolve_drive_item: fetch the id's metadata; when it is
\* a shortcut, fetch again with the shortcut's target id (one level only).
\* The result holds the lookups issued, and either an error or the id and type.
resolve_drive_item(file_id) ==
    IF LookupError(file_id) # None
    THEN [gets |-> <<ResolverGet(file_id)>>, error |-> LookupError(file_id)]
    ELSE IF DriveItems[file_id].mimeType # SHORTCUT_MIME_TYPE
    THEN [gets |-> <<ResolverGet(file_id)>>, error |-> None,
          id |-> file_id, mimeType |-> DriveItems[file_id].mimeType]
    ELSE LET target == DriveItems[file_id].targetId
         IN IF LookupError(target) # None
            THEN [gets |-> <<ResolverGet(file_id), ResolverGet(target)>>,
                  error |-> LookupError(target)]
            ELSE [gets |-> <<ResolverGet(file_id), ResolverGet(target)>>, error |-> None,
                  id |-> target, mimeType |-> DriveItems[target].mimeType]

\* gdrive.drive_helpers.resolve_folder_id: "root" needs no lookup; any other id
\* is resolved and must turn out to be a folder.
resolve_folder_id(folder_id) ==
    IF folder_id = "root"
    THEN [gets |-> <<>>, error |-> None, id |-> "root"]
    ELSE LET r == resolve_drive_item(folder_id)
         IN IF r.error # None THEN r
            ELSE IF r.mimeType # MIME_FOLDER
            THEN [gets |-> r.gets, error |-> "InvalidArgument"]
            ELSE [gets |-> r.gets, error |-> None, id |-> r.id]

(***************************************************************************)
(* File names: sequences of atoms; "pdf" stands for those three letters.   *)
(***************************************************************************)
NameAtoms == {"a", ".", "/", "pdf"}

Names == SeqsUpTo(NameAtoms, MaxNameLen) \ {<<>>}

EndsWith(s, suffix) ==
    /\ Len(s) >= Len(suffix)
    /\ SubSeq(s, Len(s) - Len(suffix) + 1, Len(s)) = suffix

\* Index of the last occurrence of atom c in s, 0 when there is none.
LastIndexOf(s, c) ==
    IF \E i \in 1..Len(s) : s[i] = c
    THEN CHOOSE i \in 1..Len(s) : s[i] = c /\ \A j \in (i + 1)..Len(s) : s[j] # c
    ELSE 0

\* pathlib: Path(s).name, the last path component; empty and "." components
\* are dropped when the path is parsed.
RECURSIVE PathName(_)
PathName(s) ==
    IF s = <<>> THEN <<>>
    ELSE LET k == LastIndexOf(s, "/")
             tail == SubSeq(s, k + 1, Len(s))
         IN IF tail = <<>> \/ tail = <<".">>
            THEN (IF k = 0 THEN <<>> ELSE PathName(SubSeq(s, 1, k - 1)))
            ELSE tail

\* pathlib: Path(s).stem, the last component without its last suffix.
PathStem(s) ==
    LET name == PathName(s)
        i == LastIndexOf(name, ".")
    IN IF 1 < i /\ i < Len(name) THEN SubSeq(name, 1, i - 1) ELSE name

(***************************************************************************)
(* get_drive_file_content and get_drive_file_download_url                  *)
(***************************************************************************)
\* Lines 154-158: the text export of a native item, None for any other item.
content_export_mime_type(mime_type) ==
    IF mime_type = MIME_DOCUMENT THEN MIME_TEXT
    ELSE IF mime_type = MIME_SPREADSHEET THEN MIME_CSV
    ELSE IF mime_type = MIME_PRESENTATION THEN MIME_TEXT
    ELSE None

\* The output name of an export: kept when it ends with the extension.
with_extension(output_filename, ext) ==
    IF ~EndsWith(output_filename, <<".", ext>>)
    THEN PathStem(output_filename) \o <<".", ext>>
    ELSE output_filename

\* An export plan that always takes the type's default target.
export_plan_default_only(mime_type, export_format, file_name) ==
    IF mime_type = MIME_DOCUMENT \/ mime_type = MIME_PRESENTATION
    THEN [export_mime_type |-> MIME_PDF, output_mime_type |-> MIME_PDF,
          output_filename |-> with_extension(file_name, "pdf")]
    ELSE IF mime_type = MIME_SPREADSHEET
    THEN [export_mime_type |-> MIME_XLSX, output_mime_type |-> MIME_XLSX,
          output_filename |-> with_extension(file_name, "xlsx")]
    ELSE [export_mime_type |-> None, output_mime_type |-> mime_type,
          output_filename |-> file_name]

\* An export plan that also exports Office files to PDF.
export_plan_office_too(mime_type, export_format, file_name) ==
    IF mime_type = MIME_DOCUMENT \/ mime_type = MIME_DOCX
    THEN [export_mime_type |-> MIME_PDF, output_mime_type |-> MIME_PDF,
          output_filename |-> with_extension(file_name, "pdf")]
    ELSE [export_mime_type |-> None, output_mime_type |-> mime_type,
          output_filename |-> file_name]

\* Lines 257-304: export MIME, declared MIME and output name of a download.
export_plan(mime_type, export_format, file_name) ==
    IF mime_type = MIME_DOCUMENT
    THEN IF export_format = "docx"
         THEN [export_mime_type |-> MIME_DOCX, output_mime_type |-> MIME_DOCX,
               output_filename |-> with_extension(file_name, "docx")]
         ELSE [export_mime_type |-> MIME_PDF, output_mime_type |-> MIME_PDF,
               output_filename |-> with_extension(file_name, "pdf")]
    ELSE IF mime_type = MIME_SPREADSHEET
    THEN IF export_format = "csv"
         THEN [export_mime_type |-> MIME_CSV, output_mime_type |-> MIME_CSV,
               output_filename |-> with_extension(file_name, "csv")]
         ELSE [export_mime_type |-> MIME_XLSX, output_mime_type |-> MIME_XLSX,
               output_filename |-> with_extension(file_name, "xlsx")]
    ELSE IF mime_type = MIME_PRESENTATION
    THEN IF export_format = "pptx"
         THEN [export_mime_type |-> MIME_PPTX, output_mime_type |-> MIME_PPTX,
               output_filename |-> with_extension(file_name, "pptx")]
         ELSE [export_mime_type |-> MIME_PDF, output_mime_type |-> MIME_PDF,
               output_filename |-> with_extension(file_name, "pdf")]
    ELSE [export_mime_type |-> None, output_mime_type |-> mime_type,
          output_filename |-> file_name]

\* Lines 160-164 and 307-311: the request the downloader will execute.
request_obj(site, file_id, export_mime_type) ==
    IF export_mime_type # None
    THEN [api |-> "files.export_media", site |-> site, fileId |-> file_id,
          mimeType |-> export_mime_type]
    ELSE [api |-> "files.get_media", site |-> site, fileId |-> file_id]

download_Init ==
    /\ \/ /\ op = "get_drive_file_content"
          /\ args \in [file_id : CallerIds]
          /\ env \in [name : {<<"a">>}]
       \/ /\ op = "get_drive_file_download_url"
          /\ args \in [file_id : CallerIds,
                       export_format : {None, "pdf", "docx", "csv", "pptx"}]
          /\ env \in [name : Names]
    /\ pc = "start"
    /\ local = NoLocals
    /\ calls = <<>>
    /\ outcome = Running

\* Lines 146-168 and 248-316 when resolution succeeds: the resolved id replaces
\* file_id, the export is planned and the downloader is set up on an empty sink.
download_resolved ==
    /\ op \in {"get_drive_file_content", "get_drive_file_download_url"}
    /\ pc = "start"
    /\ LET r == resolve_drive_item(args.file_id)
       IN /\ r.error = None
          /\ calls' = calls \o r.gets
          /\ LET plan == IF op = "get_drive_file_content"
                         THEN [export_mime_type |-> content_export_mime_type(r.mimeType),
                               output_mime_type |-> r.mimeType,
                               output_filename |-> env.name]
                         ELSE export_plan(r.mimeType, args.export_format, env.name)
             IN local' = [file_id |-> r.id,
                          mime_type |-> r.mimeType,
                          file_name |-> env.name,
                          export_mime_type |-> plan.export_mime_type,
                          output_mime_type |-> plan.output_mime_type,
                          output_filename |-> plan.output_filename,
                          request_obj |-> request_obj(op, r.id, plan.export_mime_type),
                          fh |-> <<>>,
                          done |-> FALSE]
    /\ pc' = "next_chunk"
    /\ UNCHANGED <<op, args, env, outcome>>

\* Lines 146 and 248: resolution fails and the failure leaves the handler.
download_resolve_fails ==
    /\ op \in {"get_drive_file_content", "get_drive_file_download_url"}
    /\ pc = "start"
    /\ LET r == resolve_drive_item(args.file_id)
       IN /\ r.error # None
          /\ calls' = calls \o r.gets
          /\ outcome' = [kind |-> "raise", error |-> r.error]
    /\ pc' = "done"
    /\ UNCHANGED <<op, args, local, env>>

\* The chunk the server sends as the n-th piece of the content.
ChunkBytes(n) == <<n>>

\* A loop that asks for two chunks in one iteration.
download_next_chunk_more_twice ==
    /\ op \in {"get_drive_file_content", "get_drive_file_download_url"}
    /\ pc = "next_chunk"
    /\ ~local.done
    /\ Len(local.fh) + 1 < MaxChunks
    /\ calls' = calls \o <<local.request_obj, local.request_obj>>
    /\ local' = [local EXCEPT !.fh = local.fh \o ChunkBytes(Len(local.fh) + 1)]
    /\ UNCHANGED <<op, pc, args, env, outcome>>

\* Lines 169-170 and 317-318: one next_chunk call returns with done false.
download_next_chunk_more ==
    /\ op \in {"get_drive_file_content", "get_drive_file_download_url"}
    /\ pc = "next_chunk"
    /\ ~local.done
    /\ Len(local.fh) + 1 < MaxChunks
    /\ calls' = Append(calls, local.request_obj)
    /\ local' = [local EXCEPT !.fh = local.fh \o ChunkBytes(Len(local.fh) + 1)]
    /\ UNCHANGED <<op, pc, args, env, outcome>>

\* A loop that stops at a failed chunk and goes on with what it has.
download_next_chunk_fails_kept ==
    /\ op \in {"get_drive_file_content", "get_drive_file_download_url"}
    /\ pc = "next_chunk"
    /\ ~local.done
    /\ calls' = Append(calls, local.request_obj)
    /\ outcome' = [kind |-> "return", text |-> "File downloaded successfully!",
                   file_id |-> local.file_id, size_bytes |-> Len(local.fh),
                   mime_type |-> local.output_mime_type, content |-> local.fh,
                   url |-> None]
    /\ pc' = "done"
    /\ UNCHANGED <<op, args, local, env>>

\* Lines 169-170 and 317-318: one next_chunk call fails; nothing after the
\* loop runs.
download_next_chunk_fails ==
    /\ op \in {"get_drive_file_content", "get_drive_file_download_url"}
    /\ pc = "next_chunk"
    /\ ~local.done
    /\ calls' = Append(calls, local.request_obj)
    /\ outcome' = [kind |-> "raise", error |-> "TransientIOError"]
    /\ pc' = "done"
    /\ UNCHANGED <<op, args, local, env>>

\* The steps of lines 343-356 that may fail, and str(e) of each failure.
StoreSteps == {"get_attachment_storage", "save_attachment", "get_attachment_url"}

StoreErrorMessage(fail) ==
    CASE fail = "get_attachment_storage" -> "storage unavailable"
      [] fail = "save_attachment" -> "disk full"
      [] fail = "get_attachment_url" -> "no base url"

\* Lines 358-367: the lines of the result when the file was saved.
saved_result(loc, bytes, download_url) ==
    [kind |-> "return", text |-> "File downloaded successfully!",
     file_id |-> loc.file_id, size_bytes |-> Len(bytes),
     mime_type |-> loc.output_mime_type,
     url |-> download_url]

\* Lines 379-385: the text returned when a store step failed.
save_failed_result(bytes, fail) ==
    [kind |-> "return", text |-> "Error: Failed to save file for download.",
     note |-> "File was downloaded successfully but could not be saved.",
     size_bytes |-> Len(bytes),
     details |-> StoreErrorMessage(fail),
     url |-> None]

\* Lines 320-385 without the try block: a failing store step leaves the
\* handler as an exception.
url_after_download_unguarded(loc, bytes, stateless, fail) ==
    IF stateless
    THEN [stores |-> <<>>,
          outcome |-> [kind |-> "return", text |-> "File downloaded successfully!",
                       file_id |-> loc.file_id, size_bytes |-> Len(bytes),
                       mime_type |-> loc.output_mime_type, content |-> bytes,
                       url |-> None]]
    ELSE IF fail = "get_attachment_storage"
    THEN [stores |-> <<>>,
          outcome |-> [kind |-> "raise", error |-> StoreErrorMessage(fail)]]
    ELSE LET save == [api |-> "storage.save_attachment", site |-> op,
                      data |-> bytes, filename |-> loc.output_filename,
                      mime_type |-> loc.output_mime_type]
         IN IF fail \in {"save_attachment", "get_attachment_url"}
            THEN [stores |-> <<save>>,
                  outcome |-> [kind |-> "raise", error |-> StoreErrorMessage(fail)]]
            ELSE [stores |-> <<save>>,
                  outcome |-> saved_result(loc, bytes, "attachment-url")]

\* What get_drive_file_download_url does with the bytes, lines 320-385:
\* stateless mode reports them (the first 100 bytes, here all of them);
\* otherwise they go to the attachment store, and a failure of any of the three
\* store steps is reported as text.
url_after_download(loc, bytes, stateless, fail) ==
    IF stateless
    THEN [stores |-> <<>>,
          outcome |-> [kind |-> "return", text |-> "File downloaded successfully!",
                       file_id |-> loc.file_id, size_bytes |-> Len(bytes),
                       mime_type |-> loc.output_mime_type, content |-> bytes,
                       url |-> None]]
    ELSE IF fail = "get_attachment_storage"
    THEN [stores |-> <<>>,
          outcome |-> save_failed_result(bytes, fail)]
    ELSE LET save == [api |-> "storage.save_attachment", site |-> op,
                      data |-> bytes, filename |-> loc.output_filename,
                      mime_type |-> loc.output_mime_type]
         IN IF fail \in {"save_attachment", "get_attachment_url"}
            THEN [stores |-> <<save>>,
                  outcome |-> save_failed_result(bytes, fail)]
            ELSE [stores |-> <<save>>,
                  outcome |-> saved_result(loc, bytes, "attachment-url")]

\* Lines 169-209 and 317-385: the last next_chunk call returns with done true;
\* the sink is read and the result is built.
download_next_chunk_done ==
    /\ op \in {"get_drive_file_content", "get_drive_file_download_url"}
    /\ pc = "next_chunk"
    /\ ~local.done
    /\ LET file_content_bytes == local.fh \o ChunkBytes(Len(local.fh) + 1)
       IN /\ IF op = "get_drive_file_content"
             THEN /\ local' = [local EXCEPT !.fh = file_content_bytes, !.done = TRUE]
                  /\ calls' = Append(calls, local.request_obj)
                  /\ outcome' = [kind |-> "return", text |-> "--- CONTENT ---",
                                 file_id |-> local.file_id,
                                 mime_type |-> local.mime_type,
                                 content |-> file_content_bytes]
             ELSE \E stateless \in BOOLEAN :
                  \E fail \in {None} \cup StoreSteps :
                     LET after == url_after_download(local, file_content_bytes,
                                                     stateless, fail)
                     IN /\ local' = [local EXCEPT !.fh = file_content_bytes,
                                                  !.done = TRUE]
                                       @@ [stateless |-> stateless, store_failure |-> fail]
                        /\ calls' = Append(calls, local.request_obj) \o after.stores
                        /\ outcome' = after.outcome
    /\ pc' = "done"
    /\ UNCHANGED <<op, args, env>>

download_Next ==
    \/ download_resolved
    \/ download_resolve_fails
    \/ download_next_chunk_more
    \/ download_next_chunk_fails
    \/ download_next_chunk_done

SpecDownload == download_Init /\ [][download_Next]_vars

\* Lines 169-170 and 317-318: the loop awaits each next_chunk call; when every
\* such call returns, a step of the loop that can be taken is taken.
download_chunk_returns ==
    \/ download_next_chunk_more
    \/ download_next_chunk_fails
    \/ download_next_chunk_done

SpecDownloadFair == SpecDownload /\ WF_vars(download_chunk_returns)

(***************************************************************************)
(* Claims about the download handlers.                                     *)
(***************************************************************************)
NativeMimes == {MIME_DOCUMENT, MIME_SPREADSHEET, MIME_PRESENTATION}

\* The handler has resolved its id and planned the download.
Planned == "file_id" \in DOMAIN local

\* The requests the handler itself issued (not the resolver's lookups).
OwnCalls == {i \in 1..Len(calls) : calls[i].site = op}

MediaCalls ==
    {i \in OwnCalls : calls[i].api \in {"files.export_media", "files.get_media"}}

StoreCalls == {i \in 1..Len(calls) : calls[i].api = "storage.save_attachment"}

ExpectedExportMime(mime_type, export_format) ==
    CASE mime_type = MIME_DOCUMENT ->
           IF export_format = "docx" THEN MIME_DOCX ELSE MIME_PDF
      [] mime_type = MIME_SPREADSHEET ->
           IF export_format = "csv" THEN MIME_CSV ELSE MIME_XLSX
      [] mime_type = MIME_PRESENTATION ->
           IF export_format = "pptx" THEN MIME_PPTX ELSE MIME_PDF

ExtensionOf(mime) ==
    CASE mime = MIME_PDF -> "pdf"
      [] mime = MIME_DOCX -> "docx"
      [] mime = MIME_XLSX -> "xlsx"
      [] mime = MIME_CSV -> "csv"
      [] mime = MIME_PPTX -> "pptx"

(***************************************************************************)
(* C3: in get_drive_file_download_url a native item is exported as         *)
(* document -> PDF (DOCX when export_format is docx), spreadsheet -> XLSX  *)
(* (CSV when csv), presentation -> PDF (PPTX when pptx); the declared      *)
(* output MIME is the export MIME, the export request asks for it, and the *)
(* output filename ends with the extension of that MIME.                   *)
(***************************************************************************)
C3_NativeExport ==
    (op = "get_drive_file_download_url" /\ Planned /\ local.mime_type \in NativeMimes) =>
        LET want == ExpectedExportMime(local.mime_type, args.export_format)
        IN /\ local.export_mime_type = want
           /\ local.output_mime_type = want
           /\ EndsWith(local.output_filename, <<".", ExtensionOf(want)>>)
           /\ \A i \in MediaCalls :
                calls[i].api = "files.export_media" /\ calls[i].mimeType = want
           /\ \A i \in StoreCalls :
                /\ calls[i].mime_type = want
                /\ calls[i].filename = local.output_filename

\* A spreadsheet asked for as csv has been exported and stored.
C3_Witness ==
    /\ op = "get_drive_file_download_url" /\ pc = "done" /\ Planned
    /\ local.mime_type = MIME_SPREADSHEET /\ args.export_format = "csv"
    /\ StoreCalls # {}
    /\ outcome.kind = "return" /\ outcome.url # None

(***************************************************************************)
(* C4: for an item that is not a native document, spreadsheet or           *)
(* presentation, whatever export_format is, no export MIME is chosen, the  *)
(* content is fetched with get_media and never export_media, the output    *)
(* filename is the item's name and the declared MIME the item's own MIME.  *)
(***************************************************************************)
C4_NonNativeAsIs ==
    (op = "get_drive_file_download_url" /\ Planned /\ local.mime_type \notin NativeMimes) =>
        /\ local.export_mime_type = None
        /\ local.output_filename = env.name
        /\ local.output_mime_type = local.mime_type
        /\ local.mime_type = DriveItems[local.file_id].mimeType
        /\ \A i \in MediaCalls : calls[i].api = "files.get_media"
        /\ \A i \in StoreCalls :
             /\ calls[i].mime_type = local.mime_type
             /\ calls[i].filename = env.name

\* An Office file asked for as pdf has been fetched as it is and stored.
C4_Witness ==
    /\ op = "get_drive_file_download_url" /\ pc = "done" /\ Planned
    /\ local.mime_type = MIME_DOCX /\ args.export_format = "pdf"
    /\ MediaCalls # {} /\ StoreCalls # {}

(***************************************************************************)
(* C5: when an export is planned the output filename is the item's name    *)
(* itself if it already ends with the target extension; otherwise it is    *)
(* the name without its trailing file extension, every other character     *)
(* kept (dots and slashes inside the name included), followed by the       *)
(* target extension.                                                       *)
(***************************************************************************)
\* The name without its trailing extension: a last dot that is neither the
\* first nor the last atom and has no slash after it starts the extension.
BaseName(name) ==
    LET i == LastIndexOf(name, ".")
    IN IF 1 < i /\ i < Len(name) /\ LastIndexOf(name, "/") < i
       THEN SubSeq(name, 1, i - 1)
       ELSE name

C5_BaseNamePreserved ==
    (op = "get_drive_file_download_url" /\ Planned /\ local.export_mime_type # None) =>
        LET ext == <<".", ExtensionOf(local.export_mime_type)>>
        IN IF EndsWith(env.name, ext)
           THEN local.output_filename = env.name
           ELSE local.output_filename = BaseName(env.name) \o ext

(***************************************************************************)
(* C6: a download handler returns a result only after next_chunk has       *)
(* reported done, and then the bytes it reports are all the chunks         *)
(* received; when a chunk call fails the handler raises, and what it       *)
(* raises carries no content and no size, and no attachment was stored.    *)
(***************************************************************************)
C6_NoPartialResult ==
    op \in {"get_drive_file_content", "get_drive_file_download_url"} =>
        /\ outcome.kind = "return" =>
             /\ Planned /\ local.done
             /\ "content" \in DOMAIN outcome => outcome.content = local.fh
             /\ "size_bytes" \in DOMAIN outcome => outcome.size_bytes = Len(local.fh)
             /\ \A i \in StoreCalls : calls[i].data = local.fh
        /\ (Planned /\ ~local.done) =>
             /\ StoreCalls = {}
             /\ outcome.kind \in {"running", "raise"}
        /\ outcome.kind = "raise" =>
             /\ DOMAIN outcome = {"kind", "error"}
             /\ StoreCalls = {}

\* A chunk call failed after an earlier chunk had been received.
C6_Witness ==
    /\ op = "get_drive_file_download_url" /\ pc = "done"
    /\ outcome.kind = "raise" /\ outcome.error = "TransientIOError"
    /\ Planned /\ Len(local.fh) >= 1 /\ ~local.done

(***************************************************************************)
(* Sharing: validation helpers and share_drive_file.                       *)
(***************************************************************************)
\* gdrive.drive_helpers.validate_share_role: the roles a share may grant.
VALID_SHARE_ROLES == {"reader", "commenter", "writer"}

validate_share_role(role) == role \in VALID_SHARE_ROLES

\* gdrive.drive_helpers.validate_share_type
VALID_SHARE_TYPES == {"user", "group", "domain", "anyone"}

validate_share_type(share_type) == share_type \in VALID_SHARE_TYPES

\* gdrive.drive_helpers.validate_expiration_time: RFC 3339 text is accepted.
WellFormedTimes == {"2025-01-15T00:00:00Z"}

validate_expiration_time(expiration_time) == expiration_time \in WellFormedTimes

ValueError(what) == [kind |-> "raise", error |-> "ValueError", validation |-> what]

\* Ids the sharing handlers are called with.
ShareIds == {"pdf1", "sc_pdf1", "sc_sc", "gone"}

\* Optional[bool] arguments: None, or the text of the boolean.
OptionalBool == {None, "True", "False"}

\* A precheck that lets a domain share through without a domain name.
share_precheck_domain_unchecked(a) ==
    IF ~validate_share_role(a.role) THEN "role"
    ELSE IF ~validate_share_type(a.share_type) THEN "share_type"
    ELSE IF a.share_type \in {"user", "group"} /\ ~Truthy(a.share_with) THEN "share_with"
    ELSE None

\* Lines 1164-1170: the checks made before anything else; None when they pass.
share_precheck(a) ==
    IF ~validate_share_role(a.role) THEN "role"
    ELSE IF ~validate_share_type(a.share_type) THEN "share_type"
    ELSE IF a.share_type \in {"user", "group"} /\ ~Truthy(a.share_with) THEN "share_with"
    ELSE IF a.share_type = "domain" /\ ~Truthy(a.share_with) THEN "share_with"
    ELSE None

\* Fields of a record that are set and fields that are left out.
Without(r, absent) == [k \in DOMAIN r \ absent |-> r[k]]

\* Lines 1177-1192: the permission body.
share_permission_body(a) ==
    Without([type |-> a.share_type,
             role |-> a.role,
             emailAddress |-> a.share_with,
             domain |-> a.share_with,
             expirationTime |-> a.expiration_time,
             allowFileDiscovery |-> a.allow_file_discovery],
            (IF a.share_type \in {"user", "group"} THEN {} ELSE {"emailAddress"})
              \cup (IF a.share_type = "domain" THEN {} ELSE {"domain"})
              \cup (IF Truthy(a.expiration_time) THEN {} ELSE {"expirationTime"})
              \cup (IF a.share_type \in {"domain", "anyone"} /\ a.allow_file_discovery # None
                    THEN {} ELSE {"allowFileDiscovery"}))

\* Lines 1194-1204: the parameters of permissions().create.
share_create_params(site, file_id, body, share_type, send_notification, email_message) ==
    Without([api |-> "permissions.create",
             site |-> site,
             fileId |-> file_id,
             body |-> body,
             sendNotificationEmail |-> send_notification,
             emailMessage |-> email_message],
            (IF share_type \in {"user", "group"} THEN {} ELSE {"sendNotificationEmail"})
              \cup (IF share_type \in {"user", "group"} /\ Truthy(email_message)
                    THEN {} ELSE {"emailMessage"}))

share_Init ==
    /\ op = "share_drive_file"
    /\ pc = "start"
    /\ args \in [file_id : ShareIds,
                 share_with : {None, "", "a@x.org"},
                 role : {"reader", "writer", "admin"},
                 share_type : {"user", "group", "domain", "anyone", "everyone"},
                 send_notification : BOOLEAN,
                 email_message : {None, "hi"},
                 expiration_time : {None, "2025-01-15T00:00:00Z", "tomorrow"},
                 allow_file_discovery : OptionalBool]
    /\ local = NoLocals
    /\ env = NoLocals
    /\ calls = <<>>
    /\ outcome = Running

\* Lines 1164-1170: a check fails; ValueError before anything is awaited.
share_rejected ==
    /\ op = "share_drive_file" /\ pc = "start"
    /\ share_precheck(args) # None
    /\ outcome' = ValueError(share_precheck(args))
    /\ pc' = "done"
    /\ UNCHANGED <<op, args, local, env, calls>>

\* Line 1172: the checks pass and resolution fails.
share_resolve_fails ==
    /\ op = "share_drive_file" /\ pc = "start"
    /\ share_precheck(args) = None
    /\ LET r == resolve_drive_item(args.file_id)
       IN /\ r.error # None
          /\ calls' = calls \o r.gets
          /\ outcome' = [kind |-> "raise", error |-> r.error]
    /\ pc' = "done"
    /\ UNCHANGED <<op, args, local, env>>

\* Lines 1172-1188: the id is resolved, then the expiration time is found
\* malformed.
share_expiration_rejected ==
    /\ op = "share_drive_file" /\ pc = "start"
    /\ share_precheck(args) = None
    /\ LET r == resolve_drive_item(args.file_id)
       IN /\ r.error = None
          /\ Truthy(args.expiration_time)
          /\ ~validate_expiration_time(args.expiration_time)
          /\ calls' = calls \o r.gets
          /\ local' = [file_id |-> r.id]
          /\ outcome' = ValueError("expiration_time")
    /\ pc' = "done"
    /\ UNCHANGED <<op, args, env>>

\* Lines 1172-1208: the id is resolved, the body is built and
\* permissions().create is issued for the resolved id.
share_create ==
    /\ op = "share_drive_file" /\ pc = "start"
    /\ share_precheck(args) = None
    /\ LET r == resolve_drive_item(args.file_id)
       IN /\ r.error = None
          /\ Truthy(args.expiration_time) => validate_expiration_time(args.expiration_time)
          /\ local' = [file_id |-> r.id, permission_body |-> share_permission_body(args)]
          /\ calls' = (calls \o r.gets) \o
                        <<share_create_params(op, r.id, share_permission_body(args),
                              args.share_type, args.send_notification, args.email_message)>>
    /\ pc' = "create"
    /\ UNCHANGED <<op, args, env, outcome>>

\* Lines 1206-1219: the permission is created and reported.
share_create_returns ==
    /\ op = "share_drive_file" /\ pc = "create"
    /\ outcome' = [kind |-> "return", text |-> "Successfully shared",
                   permission |-> local.permission_body]
    /\ pc' = "done"
    /\ UNCHANGED <<op, args, local, env, calls>>

\* Line 1206: permissions().create fails and the failure leaves the handler.
share_create_fails ==
    /\ op = "share_drive_file" /\ pc = "create"
    /\ outcome' = [kind |-> "raise", error |-> "HttpError"]
    /\ pc' = "done"
    /\ UNCHANGED <<op, args, local, env, calls>>

share_Next ==
    \/ share_rejected
    \/ share_resolve_fails
    \/ share_expiration_rejected
    \/ share_create
    \/ share_create_returns
    \/ share_create_fails

SpecShare == share_Init /\ [][share_Next]_vars

(***************************************************************************)
(* update_drive_permission                                                 *)
(***************************************************************************)
\* Lines 1392-1398: the checks made before anything else; None when they pass.
permission_precheck(a) ==
    IF ~Truthy(a.role) /\ ~Truthy(a.expiration_time) THEN "role_or_expiration_time"
    ELSE IF Truthy(a.role) /\ ~validate_share_role(a.role) THEN "role"
    ELSE IF Truthy(a.expiration_time) /\ ~validate_expiration_time(a.expiration_time)
    THEN "expiration_time"
    ELSE None

\* Lines 1419-1433: the permissions().update request.
permission_update_call(file_id, permission_id, role, expiration_time) ==
    [api |-> "permissions.update", site |-> "update_drive_permission",
     fileId |-> file_id, permissionId |-> permission_id,
     body |-> Without([role |-> role, expirationTime |-> expiration_time],
                      IF Truthy(expiration_time) THEN {} ELSE {"expirationTime"})]

permission_Init ==
    /\ op = "update_drive_permission"
    /\ pc = "start"
    /\ args \in [file_id : ShareIds,
                 permission_id : {"perm1"},
                 role : {None, "", "writer", "admin"},
                 expiration_time : {None, "", "2025-01-15T00:00:00Z", "tomorrow"}]
    /\ local = NoLocals
    /\ env \in [current_role : {"reader", "commenter", "owner"}]
    /\ calls = <<>>
    /\ outcome = Running

\* Lines 1392-1398: a check fails; ValueError before anything is awaited.
permission_rejected ==
    /\ op = "update_drive_permission" /\ pc = "start"
    /\ permission_precheck(args) # None
    /\ outcome' = ValueError(permission_precheck(args))
    /\ pc' = "done"
    /\ UNCHANGED <<op, args, local, env, calls>>

\* Line 1400: the checks pass and resolution fails.
permission_resolve_fails ==
    /\ op = "update_drive_permission" /\ pc = "start"
    /\ permission_precheck(args) = None
    /\ LET r == resolve_drive_item(args.file_id)
       IN /\ r.error # None
          /\ calls' = calls \o r.gets
          /\ outcome' = [kind |-> "raise", error |-> r.error]
    /\ pc' = "done"
    /\ UNCHANGED <<op, args, local, env>>

\* Lines 1400-1433: the id is resolved; without a role the current permission
\* is read first, with a role the update is issued at once.
permission_resolved ==
    /\ op = "update_drive_permission" /\ pc = "start"
    /\ permission_precheck(args) = None
    /\ LET r == resolve_drive_item(args.file_id)
       IN /\ r.error = None
          /\ local' = [file_id |-> r.id, role |-> args.role]
          /\ IF ~Truthy(args.role)
             THEN /\ calls' = (calls \o r.gets) \o
                                <<[api |-> "permissions.get", site |-> op,
                                   fileId |-> r.id, permissionId |-> args.permission_id]>>
                  /\ pc' = "get"
             ELSE /\ calls' = (calls \o r.gets) \o
                                <<permission_update_call(r.id, args.permission_id,
                                      args.role, args.expiration_time)>>
                  /\ pc' = "update"
    /\ UNCHANGED <<op, args, env, outcome>>

\* An update that sends the role reader when the caller gave none.
permission_get_returns_reader ==
    /\ op = "update_drive_permission" /\ pc = "get"
    /\ local' = [local EXCEPT !.role = "reader"]
    /\ calls' = Append(calls, permission_update_call(local.file_id, args.permission_id,
                                  "reader", args.expiration_time))
    /\ pc' = "update"
    /\ UNCHANGED <<op, args, env, outcome>>

\* Lines 1407-1433: the current role is read and sent back in the update.
permission_get_returns ==
    /\ op = "update_drive_permission" /\ pc = "get"
    /\ local' = [local EXCEPT !.role = env.current_role]
    /\ calls' = Append(calls, permission_update_call(local.file_id, args.permission_id,
                                  env.current_role, args.expiration_time))
    /\ pc' = "update"
    /\ UNCHANGED <<op, args, env, outcome>>

\* Lines 1407 and 1423: a permissions call fails and the failure leaves the
\* handler.
permission_call_fails ==
    /\ op = "update_drive_permission" /\ pc \in {"get", "update"}
    /\ outcome' = [kind |-> "raise", error |-> "HttpError"]
    /\ pc' = "done"
    /\ UNCHANGED <<op, args, local, env, calls>>

\* Lines 1423-1442: the permission is updated and reported.
permission_update_returns ==
    /\ op = "update_drive_permission" /\ pc = "update"
    /\ outcome' = [kind |-> "return", text |-> "Successfully updated permission",
                   role |-> local.role]
    /\ pc' = "done"
    /\ UNCHANGED <<op, args, local, env, calls>>

permission_Next ==
    \/ permission_rejected
    \/ permission_resolve_fails
    \/ permission_resolved
    \/ permission_get_returns
    \/ permission_call_fails
    \/ permission_update_returns

SpecPermission == permission_Init /\ [][permission_Next]_vars

(***************************************************************************)
(* batch_share_drive_file                                                  *)
(***************************************************************************)
\* A recipient dict; a key that is left out holds None.
Recipient(share_type, email, domain, role, expiration_time) ==
    [share_type |-> share_type, email |-> email, domain |-> domain,
     role |-> role, expiration_time |-> expiration_time]

RecipientKinds ==
    {Recipient(None, "a@x.org", None, None, None),
     Recipient("group", "g@x.org", None, "writer", "2025-01-15T00:00:00Z"),
     Recipient("domain", None, "x.org", "reader", None),
     Recipient("user", None, None, "reader", None),
     Recipient("domain", "a@x.org", None, "reader", None),
     Recipient("user", "b@x.org", None, "admin", None),
     Recipient("everyone", "c@x.org", None, "reader", None),
     Recipient("user", "d@x.org", None, "reader", "tomorrow"),
     Recipient("anyone", "e@x.org", None, "reader", None)}

BatchIds == {"pdf1", "sc_pdf1", "gone"}

\* dict.get(key, default)
GetOr(value, default) == IF value = None THEN default ELSE value

\* Lines 1273-1322: the checks one recipient goes through before any request,
\* in the order the loop makes them; failure is None when all pass.
recipient_check(recipient) ==
    LET share_type == GetOr(recipient.share_type, "user")
        identifier == IF share_type = "domain" THEN recipient.domain ELSE recipient.email
        role == GetOr(recipient.role, "reader")
    IN [share_type |-> share_type,
        identifier |-> identifier,
        role |-> role,
        failure |->
            IF share_type = "domain" /\ ~Truthy(recipient.domain) THEN "missing domain"
            ELSE IF share_type # "domain" /\ ~Truthy(recipient.email) THEN "missing email"
            ELSE IF ~validate_share_role(role) THEN "role"
            ELSE IF ~validate_share_type(share_type) THEN "share_type"
            ELSE IF Truthy(recipient.expiration_time)
                    /\ ~validate_expiration_time(recipient.expiration_time)
            THEN "expiration_time"
            ELSE None]

\* Lines 1305-1318: the permission body of a recipient that passed the checks.
recipient_permission_body(recipient) ==
    LET c == recipient_check(recipient)
    IN Without([type |-> c.share_type,
                role |-> c.role,
                domain |-> c.identifier,
                emailAddress |-> c.identifier,
                expirationTime |-> recipient.expiration_time],
               (IF c.share_type = "domain" THEN {"emailAddress"} ELSE {"domain"})
                 \cup (IF Truthy(recipient.expiration_time) THEN {} ELSE {"expirationTime"}))

\* One line of the result list: which recipient it is about and how it ended.
ResultLine(i, status, detail) == [recipient |-> i, status |-> status, detail |-> detail]

batch_Init ==
    /\ op = "batch_share_drive_file"
    /\ pc = "start"
    /\ args \in [file_id : BatchIds,
                 recipients : SeqsUpTo(RecipientKinds, MaxRecipients),
                 send_notification : BOOLEAN,
                 email_message : {None, "hi"}]
    /\ local = NoLocals
    /\ env = [permissions |-> <<>>]
    /\ calls = <<>>
    /\ outcome = Running

\* Line 1260: resolution fails and the failure leaves the handler.
batch_resolve_fails ==
    /\ op = "batch_share_drive_file" /\ pc = "start"
    /\ LET r == resolve_drive_item(args.file_id)
       IN /\ r.error # None
          /\ calls' = calls \o r.gets
          /\ outcome' = [kind |-> "raise", error |-> r.error]
    /\ pc' = "done"
    /\ UNCHANGED <<op, args, local, env>>

\* Lines 1260-1266: the id is resolved and the recipient list is empty.
batch_empty ==
    /\ op = "batch_share_drive_file" /\ pc = "start"
    /\ LET r == resolve_drive_item(args.file_id)
       IN /\ r.error = None
          /\ args.recipients = <<>>
          /\ calls' = calls \o r.gets
          /\ local' = [file_id |-> r.id]
          /\ outcome' = ValueError("recipients")
    /\ pc' = "done"
    /\ UNCHANGED <<op, args, env>>

\* Lines 1260-1272: the id is resolved and the loop starts at the first
\* recipient.
batch_resolved ==
    /\ op = "batch_share_drive_file" /\ pc = "start"
    /\ LET r == resolve_drive_item(args.file_id)
       IN /\ r.error = None
          /\ args.recipients # <<>>
          /\ calls' = calls \o r.gets
          /\ local' = [file_id |-> r.id, next |-> 1, results |-> <<>>,
                       success_count |-> 0, failure_count |-> 0]
    /\ pc' = "recipient"
    /\ UNCHANGED <<op, args, env, outcome>>

\* A loop that records the line of a failed check without counting it.
batch_recipient_skipped_uncounted ==
    /\ op = "batch_share_drive_file" /\ pc = "recipient"
    /\ local.next <= Len(args.recipients)
    /\ LET c == recipient_check(args.recipients[local.next])
       IN /\ c.failure # None
          /\ local' = [local EXCEPT
                          !.results = Append(@, ResultLine(local.next, "failed", c.failure)),
                          !.next = @ + 1]
    /\ UNCHANGED <<op, pc, args, env, calls, outcome>>

\* Lines 1272-1322: the next recipient fails a check; a line is recorded and
\* the loop continues.
batch_recipient_skipped ==
    /\ op = "batch_share_drive_file" /\ pc = "recipient"
    /\ local.next <= Len(args.recipients)
    /\ LET c == recipient_check(args.recipients[local.next])
       IN /\ c.failure # None
          /\ local' = [local EXCEPT
                          !.results = Append(@, ResultLine(local.next, "failed", c.failure)),
                          !.failure_count = @ + 1,
                          !.next = @ + 1]
    /\ UNCHANGED <<op, pc, args, env, calls, outcome>>

\* A loop that issues permissions().create whether or not the checks pass.
batch_recipient_create_unchecked ==
    /\ op = "batch_share_drive_file" /\ pc = "recipient"
    /\ local.next <= Len(args.recipients)
    /\ LET recipient == args.recipients[local.next]
           c == recipient_check(recipient)
       IN calls' = Append(calls,
                      share_create_params(op, local.file_id,
                          recipient_permission_body(recipient), c.share_type,
                          args.send_notification, args.email_message))
    /\ pc' = "create"
    /\ UNCHANGED <<op, args, local, env, outcome>>

\* Lines 1272-1339: the next recipient passes the checks and
\* permissions().create is issued for it.
batch_recipient_create ==
    /\ op = "batch_share_drive_file" /\ pc = "recipient"
    /\ local.next <= Len(args.recipients)
    /\ LET recipient == args.recipients[local.next]
           c == recipient_check(recipient)
       IN /\ c.failure = None
          /\ calls' = Append(calls,
                         share_create_params(op, local.file_id,
                             recipient_permission_body(recipient), c.share_type,
                             args.send_notification, args.email_message))
    /\ pc' = "create"
    /\ UNCHANGED <<op, args, local, env, outcome>>

\* Lines 1337-1341: the permission is created on the server; a success line
\* is recorded.
batch_create_returns ==
    /\ op = "batch_share_drive_file" /\ pc = "create"
    /\ env' = [env EXCEPT !.permissions = Append(@, calls[Len(calls)].body)]
    /\ local' = [local EXCEPT
                    !.results = Append(@, ResultLine(local.next, "created", None)),
                    !.success_count = @ + 1,
                    !.next = @ + 1]
    /\ pc' = "recipient"
    /\ UNCHANGED <<op, args, calls, outcome>>

\* Lines 1342-1344: the request fails with HttpError; a failure line is
\* recorded and the loop continues.
batch_create_http_error ==
    /\ op = "batch_share_drive_file" /\ pc = "create"
    /\ local' = [local EXCEPT
                    !.results = Append(@, ResultLine(local.next, "failed", "HttpError")),
                    !.failure_count = @ + 1,
                    !.next = @ + 1]
    /\ pc' = "recipient"
    /\ UNCHANGED <<op, args, env, calls, outcome>>

\* Other failures of the request (a timeout, a refused connection, an expired
\* credential): these are not HttpError.
OtherCallErrors == {"TimeoutError"}

\* Lines 1336-1344: the request fails with something that is not HttpError;
\* the except clause does not match and the failure leaves the handler.
batch_create_other_error ==
    /\ op = "batch_share_drive_file" /\ pc = "create"
    /\ \E e \in OtherCallErrors : outcome' = [kind |-> "raise", error |-> e]
    /\ pc' = "done"
    /\ UNCHANGED <<op, args, local, env, calls>>

\* Lines 1346-1361: the list is exhausted; the summary and the lines are
\* returned.
batch_returns ==
    /\ op = "batch_share_drive_file" /\ pc = "recipient"
    /\ local.next > Len(args.recipients)
    /\ outcome' = [kind |-> "return",
                   success_count |-> local.success_count,
                   failure_count |-> local.failure_count,
                   results |-> local.results]
    /\ pc' = "done"
    /\ UNCHANGED <<op, args, local, env, calls>>

batch_Next ==
    \/ batch_resolve_fails
    \/ batch_empty
    \/ batch_resolved
    \/ batch_recipient_skipped
    \/ batch_recipient_create
    \/ batch_create_returns
    \/ batch_create_http_error
    \/ batch_create_other_error
    \/ batch_returns

SpecBatch == batch_Init /\ [][batch_Next]_vars

(***************************************************************************)
(* create_drive_file                                                       *)
(***************************************************************************)
DOWNLOAD_CHUNK_SIZE_BYTES == 256 * 1024

UPLOAD_CHUNK_SIZE_BYTES == 5 * 1024 * 1024

FileUrls == {"file:///data/a.txt", "file:///etc/passwd", "file://nas/a.txt",
             "https://host/a.png", "http://host/a.png",
             "ftp://host/a.png", "host/a.png"}

\* urllib.parse.urlparse(fileUrl).scheme
UrlScheme(fileUrl) ==
    CASE fileUrl = "file:///data/a.txt" -> "file"
      [] fileUrl = "attachment-url" -> "https"
      [] fileUrl = "file:///etc/passwd" -> "file"
      [] fileUrl = "file://nas/a.txt" -> "file"
      [] fileUrl = "https://host/a.png" -> "https"
      [] fileUrl = "http://host/a.png" -> "http"
      [] fileUrl = "ftp://host/a.png" -> "ftp"
      [] fileUrl = "host/a.png" -> ""

\* urllib.parse.urlparse(fileUrl).netloc of a file:// URL
UrlNetloc(fileUrl) ==
    CASE fileUrl = "file:///data/a.txt" -> ""
      [] fileUrl = "file:///etc/passwd" -> ""
      [] fileUrl = "file://nas/a.txt" -> "nas"

\* urllib.parse.urlparse(fileUrl).path of a file:// URL
UrlPath(fileUrl) ==
    CASE fileUrl = "file:///data/a.txt" -> <<"/", "data", "/", "a.txt">>
      [] fileUrl = "file:///etc/passwd" -> <<"/", "etc", "/", "passwd">>
      [] fileUrl = "file://nas/a.txt" -> <<"/", "a.txt">>

\* Lines 510-514: the local path a file:// URL names; a host other than
\* localhost is put in front of the path.
UrlFilePath(fileUrl) ==
    IF UrlNetloc(fileUrl) # "" /\ UrlNetloc(fileUrl) # "localhost"
    THEN <<"/", "/", UrlNetloc(fileUrl)>> \o UrlPath(fileUrl)
    ELSE UrlPath(fileUrl)

\* get_transport_mode()
TransportModes == {"stdio", "streamable-http"}

\* What Path(file_path) is on the server: absent, a directory or a regular
\* file.
PathKinds == {"missing", "directory", "file"}

\* Lines 519-523 and 526-530, with the guidance given in every mode.
local_path_extra_always(path_kind, running_streamable) ==
    IF path_kind = "missing"
    THEN " The server is running via streamable-http, so file:// URLs must point to files inside the container or remote host."
    ELSE " In streamable-http/Docker deployments, mount the file into the container or provide an HTTP(S) URL."

\* Lines 519-523 and 526-530: the guidance added to the message under
\* streamable-http.
local_path_extra(path_kind, running_streamable) ==
    IF ~running_streamable THEN ""
    ELSE IF path_kind = "missing"
    THEN " The server is running via streamable-http, so file:// URLs must point to files inside the container or remote host."
    ELSE " In streamable-http/Docker deployments, mount the file into the container or provide an HTTP(S) URL."

\* Lines 524 and 531: the error raised for a path that is not a regular file.
local_path_error(path_kind, file_path, running_streamable) ==
    [kind |-> "raise", error |-> "Exception",
     message |-> IF path_kind = "missing"
                 THEN "Local file does not exist: " ELSE "Path is not a file: ",
     file_path |-> file_path,
     extra |-> local_path_extra(path_kind, running_streamable)]

\* Lines 502-517: the locals of the file:// branch.
create_local_locals(r, transport_mode, path_kind) ==
    [resolved_folder_id |-> r.id,
     mime_type |-> args.mime_type,
     file_metadata |-> [name |-> args.file_name, parents |-> <<r.id>>,
                        mimeType |-> args.mime_type],
     transport_mode |-> transport_mode,
     running_streamable |-> (transport_mode = "streamable-http"),
     file_path |-> UrlFilePath(args.fileUrl),
     path_kind |-> path_kind]

ContentTexts == {"hi", "caf\\u00e9"}

\* str.encode("utf-8")
Utf8Encode(text) ==
    CASE text = "hi" -> <<104, 105>>
      [] text = "caf\\u00e9" -> <<99, 97, 102, 195, 169>>

RECURSIVE Flatten(_)
Flatten(chunks) ==
    IF chunks = <<>> THEN <<>> ELSE Head(chunks) \o Flatten(Tail(chunks))

\* The ways a server may cut a body into non-empty chunks.
Chunkings(bytes) ==
    {c \in SeqsUpTo({SubSeq(bytes, i, j) : i, j \in 1..Len(bytes)} \ {<<>>}, Len(bytes)) :
        Flatten(c) = bytes}

\* The bodies the URL may serve: the attachment a download saved when the
\* URL is that download's, any body otherwise.
ServedBodies ==
    IF "attachment" \in DOMAIN env
    THEN Chunkings(env.attachment)
    ELSE SeqsUpTo({<<1>>, <<2, 3>>}, MaxChunks)

\* What an HTTP server may answer: a status, a Content-Type header (None when
\* absent) and a body, given as the chunks aiter_bytes will yield.
HttpResponses ==
    [status_code : {200, 404},
     content_type : {None, "", "application/octet-stream", "image/png"},
     body : ServedBodies]

\* Bytes of a local file.
LocalFileBytes == <<7, 8>>

Exception(what) == [kind |-> "raise", error |-> "Exception", validation |-> what]

\* Lines 485-489: the metadata of the file to create.
create_file_metadata(file_name, resolved_folder_id, mime_type) ==
    [name |-> file_name, parents |-> <<resolved_folder_id>>, mimeType |-> mime_type]

\* Lines 570-573 and 619-625 without the test for the generic type.
header_mime_type_any(content_type, mime_type) ==
    IF Truthy(content_type) THEN content_type ELSE mime_type

\* Lines 570-573 and 619-625: a usable Content-Type header replaces the
\* caller's MIME type.
header_mime_type(content_type, mime_type) ==
    IF Truthy(content_type) /\ content_type # "application/octet-stream"
    THEN content_type
    ELSE mime_type

\* Lines 540-557, 578-594, 634-653 and 666-675: the files().create request
\* with its media body.
create_call(file_metadata, source, bytes, mime_type, chunksize) ==
    [api |-> "files.create", site |-> "create_drive_file",
     body |-> file_metadata,
     media_body |-> [source |-> source, bytes |-> bytes, mimetype |-> mime_type,
                     resumable |-> TRUE, chunksize |-> chunksize]]

\* Lines 563 and 601: the HTTP request for the URL.
http_call(method, fileUrl) ==
    [api |-> method, site |-> "create_drive_file", url |-> fileUrl,
     follow_redirects |-> TRUE]

\* What a file object yields when read from its current position.
ReadFrom(file, position) == SubSeq(file, position + 1, Len(file))

create_Init ==
    /\ op = "create_drive_file"
    /\ pc = "start"
    /\ args \in [file_name : {"new.txt"},
                 content : {None, ""} \cup ContentTexts,
                 folder_id : {"root", "folder1", "sc_dir1", "pdf1", "gone"},
                 mime_type : {"text/plain"},
                 fileUrl : {None, ""} \cup FileUrls]
    /\ local = NoLocals
    /\ env = [temp_files |-> {}]
    /\ calls = <<>>
    /\ outcome = Running

\* Lines 479-480: neither content nor fileUrl; raised before anything is
\* awaited.
create_rejected ==
    /\ op = "create_drive_file" /\ pc = "start"
    /\ ~Truthy(args.content) /\ ~Truthy(args.fileUrl)
    /\ outcome' = Exception("content_or_fileUrl")
    /\ pc' = "done"
    /\ UNCHANGED <<op, args, local, env, calls>>

\* Line 483: folder resolution fails and the failure leaves the handler.
create_folder_fails ==
    /\ op = "create_drive_file" /\ pc = "start"
    /\ Truthy(args.content) \/ Truthy(args.fileUrl)
    /\ LET r == resolve_folder_id(args.folder_id)
       IN /\ r.error # None
          /\ calls' = calls \o r.gets
          /\ outcome' = [kind |-> "raise", error |-> r.error]
    /\ pc' = "done"
    /\ UNCHANGED <<op, args, local, env>>

\* The locals bound once the folder is resolved (lines 482-489).
create_locals(r) ==
    [resolved_folder_id |-> r.id,
     mime_type |-> args.mime_type,
     file_metadata |-> create_file_metadata(args.file_name, r.id, args.mime_type)]

\* Lines 483-497 and 654-661: the folder is resolved, then the URL's scheme is
\* found missing or unsupported.
create_scheme_rejected ==
    /\ op = "create_drive_file" /\ pc = "start"
    /\ Truthy(args.fileUrl)
    /\ UrlScheme(args.fileUrl) \notin {"file", "http", "https"}
    /\ LET r == resolve_folder_id(args.folder_id)
       IN /\ r.error = None
          /\ calls' = calls \o r.gets
          /\ local' = create_locals(r)
          /\ outcome' = Exception(IF UrlScheme(args.fileUrl) = ""
                                  THEN "url_scheme_missing" ELSE "url_scheme")
    /\ pc' = "done"
    /\ UNCHANGED <<op, args, env>>

\* Lines 483-531: a file:// URL whose path does not exist or is not a regular
\* file; the message is longer under streamable-http.
create_local_rejected ==
    /\ op = "create_drive_file" /\ pc = "start"
    /\ Truthy(args.fileUrl) /\ UrlScheme(args.fileUrl) = "file"
    /\ LET r == resolve_folder_id(args.folder_id)
       IN /\ r.error = None
          /\ calls' = calls \o r.gets
          /\ \E transport_mode \in TransportModes :
             \E path_kind \in PathKinds \ {"file"} :
                /\ local' = create_local_locals(r, transport_mode, path_kind)
                /\ outcome' = local_path_error(path_kind, UrlFilePath(args.fileUrl),
                                               transport_mode = "streamable-http")
    /\ pc' = "done"
    /\ UNCHANGED <<op, args, env>>

\* Lines 483-536: a file:// URL naming a regular file; its bytes are read.
create_local_read ==
    /\ op = "create_drive_file" /\ pc = "start"
    /\ Truthy(args.fileUrl) /\ UrlScheme(args.fileUrl) = "file"
    /\ LET r == resolve_folder_id(args.folder_id)
       IN /\ r.error = None
          /\ calls' = calls \o r.gets
          /\ \E transport_mode \in TransportModes :
                local' = create_local_locals(r, transport_mode, "file")
    /\ pc' = "read_bytes"
    /\ UNCHANGED <<op, args, env, outcome>>

\* Lines 536-557: the bytes are read and the upload is issued.
create_local_upload ==
    /\ op = "create_drive_file" /\ pc = "read_bytes"
    /\ calls' = Append(calls, create_call(local.file_metadata, "memory", LocalFileBytes,
                                          local.mime_type, UPLOAD_CHUNK_SIZE_BYTES))
    /\ pc' = "upload"
    /\ UNCHANGED <<op, args, local, env, outcome>>

\* Line 536: reading the file fails.
create_local_read_fails ==
    /\ op = "create_drive_file" /\ pc = "read_bytes"
    /\ outcome' = [kind |-> "raise", error |-> "OSError"]
    /\ pc' = "done"
    /\ UNCHANGED <<op, args, local, env, calls>>

\* Lines 483-563 and 595-601 with the strategies exchanged: a temporary
\* file in stateless mode, one buffered GET otherwise.
create_http_request_exchanged ==
    /\ op = "create_drive_file" /\ pc = "start"
    /\ Truthy(args.fileUrl) /\ UrlScheme(args.fileUrl) \in {"http", "https"}
    /\ LET r == resolve_folder_id(args.folder_id)
       IN /\ r.error = None
          /\ \E is_stateless_mode \in BOOLEAN :
               /\ local' = create_locals(r) @@ [stateless |-> is_stateless_mode]
               /\ IF ~is_stateless_mode
                  THEN /\ calls' = (calls \o r.gets) \o <<http_call("http.get", args.fileUrl)>>
                       /\ pc' = "http_get"
                       /\ env' = env
                  ELSE /\ calls' = (calls \o r.gets) \o <<http_call("http.stream", args.fileUrl)>>
                       /\ pc' = "http_stream"
                       /\ env' = [env EXCEPT !.temp_files = @ \cup {"temp_file"}]
    /\ UNCHANGED <<op, args, outcome>>

\* Lines 483-563 and 595-601: an http(s) URL; in stateless mode the body is
\* fetched with one GET, otherwise a temporary file is opened and the response
\* is streamed.
create_http_request ==
    /\ op = "create_drive_file" /\ pc = "start"
    /\ Truthy(args.fileUrl) /\ UrlScheme(args.fileUrl) \in {"http", "https"}
    /\ LET r == resolve_folder_id(args.folder_id)
       IN /\ r.error = None
          /\ \E is_stateless_mode \in BOOLEAN :
               /\ local' = create_locals(r) @@ [stateless |-> is_stateless_mode]
               /\ IF is_stateless_mode
                  THEN /\ calls' = (calls \o r.gets) \o <<http_call("http.get", args.fileUrl)>>
                       /\ pc' = "http_get"
                       /\ env' = env
                  ELSE /\ calls' = (calls \o r.gets) \o <<http_call("http.stream", args.fileUrl)>>
                       /\ pc' = "http_stream"
                       /\ env' = [env EXCEPT !.temp_files = @ \cup {"temp_file"}]
    /\ UNCHANGED <<op, args, outcome>>

\* Lines 563-594: the GET returns; a status other than 200 is an error, else
\* the whole body is read into memory, the header's MIME type is taken and the
\* upload is issued.
create_http_get_returns ==
    /\ op = "create_drive_file" /\ pc = "http_get"
    /\ \E resp \in HttpResponses :
         IF resp.status_code # 200
         THEN /\ outcome' = [kind |-> "raise", error |-> "Exception",
                             message |-> "Failed to fetch file from URL",
                             status |-> resp.status_code]
              /\ pc' = "done"
              /\ UNCHANGED <<local, calls>>
         ELSE LET file_data == Flatten(resp.body)
                  mime == header_mime_type(resp.content_type, local.mime_type)
                  metadata == [local.file_metadata EXCEPT !.mimeType = mime]
              IN /\ local' = [resolved_folder_id |-> local.resolved_folder_id,
                              stateless |-> local.stateless,
                              mime_type |-> mime,
                              file_metadata |-> metadata,
                              content_type |-> resp.content_type,
                              body |-> resp.body,
                              file_data |-> file_data]
                 /\ calls' = Append(calls, create_call(metadata, "memory", file_data, mime,
                                                       UPLOAD_CHUNK_SIZE_BYTES))
                 /\ pc' = "upload"
                 /\ UNCHANGED outcome
    /\ UNCHANGED <<op, args, env>>

\* Lines 563, 601 and 608: the HTTP request or the reading of its body fails;
\* leaving the with block removes the temporary file.
create_http_fails ==
    /\ op = "create_drive_file" /\ pc \in {"http_get", "http_stream", "http_body"}
    /\ outcome' = [kind |-> "raise", error |-> "HTTPError"]
    /\ env' = [env EXCEPT !.temp_files = {}]
    /\ pc' = "done"
    /\ UNCHANGED <<op, args, local, calls>>

\* Lines 601-605: the streamed response starts; a status other than 200 is an
\* error.
create_http_stream_opens ==
    /\ op = "create_drive_file" /\ pc = "http_stream"
    /\ \E resp \in HttpResponses :
         IF resp.status_code # 200
         THEN /\ outcome' = [kind |-> "raise", error |-> "Exception",
                             message |-> "Failed to fetch file from URL",
                             status |-> resp.status_code]
              /\ env' = [env EXCEPT !.temp_files = {}]
              /\ pc' = "done"
              /\ UNCHANGED local
         ELSE /\ local' = [resolved_folder_id |-> local.resolved_folder_id,
                           stateless |-> local.stateless,
                           mime_type |-> local.mime_type,
                           file_metadata |-> local.file_metadata,
                           content_type |-> resp.content_type,
                           body |-> resp.body,
                           chunk_size |-> DOWNLOAD_CHUNK_SIZE_BYTES,
                           pending |-> resp.body,
                           chunk |-> <<>>,
                           temp_file |-> <<>>,
                           position |-> 0,
                           total_bytes |-> 0]
              /\ pc' = "http_body"
              /\ UNCHANGED <<env, outcome>>
    /\ UNCHANGED <<op, args, calls>>

\* Lines 608-612 with each chunk written at the start of the file.
create_http_chunk_overwrites ==
    /\ op = "create_drive_file" /\ pc = "http_body"
    /\ local.pending # <<>>
    /\ local' = [local EXCEPT !.chunk = Head(local.pending),
                              !.temp_file = Head(local.pending),
                              !.position = Len(Head(local.pending)),
                              !.total_bytes = @ + Len(Head(local.pending)),
                              !.pending = Tail(@)]
    /\ UNCHANGED <<op, pc, args, env, calls, outcome>>

\* Lines 608-612: one chunk of the body arrives and is written to the
\* temporary file at its current position.
create_http_chunk ==
    /\ op = "create_drive_file" /\ pc = "http_body"
    /\ local.pending # <<>>
    /\ local' = [local EXCEPT !.chunk = Head(local.pending),
                              !.temp_file = @ \o Head(local.pending),
                              !.position = @ + Len(Head(local.pending)),
                              !.total_bytes = @ + Len(Head(local.pending)),
                              !.pending = Tail(@)]
    /\ UNCHANGED <<op, pc, args, env, calls, outcome>>

\* Line 611: writing to the temporary file fails.
create_temp_write_fails ==
    /\ op = "create_drive_file" /\ pc = "http_body"
    /\ local.pending # <<>>
    /\ outcome' = [kind |-> "raise", error |-> "OSError"]
    /\ env' = [env EXCEPT !.temp_files = {}]
    /\ pc' = "done"
    /\ UNCHANGED <<op, args, local, calls>>

\* Lines 608-653 without lines 619-625: the temporary-file strategy keeps the
\* caller's MIME type.
create_http_body_ends_caller_mime ==
    /\ op = "create_drive_file" /\ pc = "http_body"
    /\ local.pending = <<>>
    /\ local' = [local EXCEPT !.position = 0]
    /\ calls' = Append(calls, create_call(local.file_metadata, "temp_file",
                                          ReadFrom(local.temp_file, 0), local.mime_type,
                                          UPLOAD_CHUNK_SIZE_BYTES))
    /\ pc' = "upload"
    /\ UNCHANGED <<op, args, env, outcome>>

\* Lines 608-653: the body has ended; the header's MIME type is taken, the
\* temporary file is rewound and the upload reading it is issued.
create_http_body_ends ==
    /\ op = "create_drive_file" /\ pc = "http_body"
    /\ local.pending = <<>>
    /\ LET mime == header_mime_type(local.content_type, local.mime_type)
           metadata == [local.file_metadata EXCEPT !.mimeType = mime]
       IN /\ local' = [local EXCEPT !.mime_type = mime, !.file_metadata = metadata,
                                    !.position = 0]
          /\ calls' = Append(calls, create_call(metadata, "temp_file",
                                                ReadFrom(local.temp_file, 0), mime,
                                                UPLOAD_CHUNK_SIZE_BYTES))
    /\ pc' = "upload"
    /\ UNCHANGED <<op, args, env, outcome>>

\* An upload of the content whenever there is content, with or without a
\* fileUrl.
create_inline_upload_first ==
    /\ op = "create_drive_file" /\ pc = "start"
    /\ Truthy(args.content)
    /\ LET r == resolve_folder_id(args.folder_id)
       IN /\ r.error = None
          /\ local' = create_locals(r)
          /\ calls' = (calls \o r.gets) \o
                        <<create_call(create_locals(r).file_metadata, "memory",
                                      Utf8Encode(args.content), args.mime_type, None)>>
    /\ pc' = "upload"
    /\ UNCHANGED <<op, args, env, outcome>>

\* Lines 483-489 and 662-675: no fileUrl; the content is encoded and the
\* upload is issued with the default chunk size.
create_inline_upload ==
    /\ op = "create_drive_file" /\ pc = "start"
    /\ ~Truthy(args.fileUrl) /\ Truthy(args.content)
    /\ LET r == resolve_folder_id(args.folder_id)
       IN /\ r.error = None
          /\ local' = create_locals(r)
          /\ calls' = (calls \o r.gets) \o
                        <<create_call(create_locals(r).file_metadata, "memory",
                                      Utf8Encode(args.content), args.mime_type, None)>>
    /\ pc' = "upload"
    /\ UNCHANGED <<op, args, env, outcome>>

\* Lines 548-557, 585-594, 644-653, 666-680: the upload succeeds; the with
\* block, if any, is left and the confirmation is returned.
create_upload_returns ==
    /\ op = "create_drive_file" /\ pc = "upload"
    /\ outcome' = [kind |-> "return", text |-> "Successfully created file"]
    /\ env' = [env EXCEPT !.temp_files = {}]
    /\ pc' = "done"
    /\ UNCHANGED <<op, args, local, calls>>

\* The upload fails and the temporary file is kept.
create_upload_fails_kept ==
    /\ op = "create_drive_file" /\ pc = "upload"
    /\ outcome' = [kind |-> "raise", error |-> "HttpError"]
    /\ pc' = "done"
    /\ UNCHANGED <<op, args, local, env, calls>>

\* The upload fails; the with block, if any, is left and the failure leaves
\* the handler.
create_upload_fails ==
    /\ op = "create_drive_file" /\ pc = "upload"
    /\ outcome' = [kind |-> "raise", error |-> "HttpError"]
    /\ env' = [env EXCEPT !.temp_files = {}]
    /\ pc' = "done"
    /\ UNCHANGED <<op, args, local, calls>>

create_Next ==
    \/ create_rejected
    \/ create_folder_fails
    \/ create_scheme_rejected
    \/ create_local_rejected
    \/ create_local_read
    \/ create_local_upload
    \/ create_local_read_fails
    \/ create_http_request
    \/ create_http_get_returns
    \/ create_http_fails
    \/ create_http_stream_opens
    \/ create_http_chunk
    \/ create_temp_write_fails
    \/ create_http_body_ends
    \/ create_inline_upload
    \/ create_upload_returns
    \/ create_upload_fails

SpecCreate == create_Init /\ [][create_Next]_vars

(***************************************************************************)
(* update_drive_file                                                       *)
(***************************************************************************)
\* An Optional[str] whose text matters: absent (None) or a text, itself a
\* sequence of atoms.
Absent == [given |-> FALSE]

Text(t) == [given |-> TRUE, text |-> t]

\* Python truth of such a value: neither None nor the empty text.
TextTruthy(x) == x.given /\ x.text # <<>>

\* Atoms of an add_parents / remove_parents argument: ids, the comma and the
\* blank.
ParentAtoms == {"folder1", "sc_dir1", "pdf1", ",", " "}

ParentTexts == {Absent} \cup {Text(t) : t \in SeqsUpTo(ParentAtoms, MaxParentLen)}

\* str.split(","): the pieces between the commas, at least one.
RECURSIVE SplitCommas(_)
SplitCommas(s) ==
    IF s = <<>> THEN << <<>> >>
    ELSE LET rest == SplitCommas(Tail(s))
         IN IF Head(s) = ","
            THEN << <<>> >> \o rest
            ELSE << <<Head(s)>> \o Head(rest) >> \o Tail(rest)

RECURSIVE LStrip(_)
LStrip(s) == IF s # <<>> /\ Head(s) = " " THEN LStrip(Tail(s)) ELSE s

RECURSIVE RStrip(_)
RStrip(s) ==
    IF s # <<>> /\ s[Len(s)] = " " THEN RStrip(SubSeq(s, 1, Len(s) - 1)) ELSE s

\* str.strip()
Strip(s) == RStrip(LStrip(s))

NonEmptyText(t) == t # <<>>

\* Line 967: the stripped pieces that are not empty, in order.
split_parent_ids(text) ==
    LET parts == SplitCommas(text)
    IN SelectSeq([i \in 1..Len(parts) |-> Strip(parts[i])], NonEmptyText)

\* The id a piece of text names: a single id atom is that id; a text of
\* several atoms is an id Drive does not know.
IdOfText(t) == IF Len(t) = 1 THEN t[1] ELSE "gone"

\* Lines 973-974 for one id, given the resolver's answer for it and the
\* outcome of the rest of the loop: a failure ends the loop.
parents_after(r, rest) ==
    IF r.error # None
    THEN [gets |-> r.gets, error |-> r.error, ids |-> <<>>]
    ELSE IF rest.error # None
    THEN [gets |-> r.gets \o rest.gets, error |-> rest.error, ids |-> <<>>]
    ELSE [gets |-> r.gets \o rest.gets, error |-> None, ids |-> <<r.id>> \o rest.ids]

\* Lines 971-974 with the caller's ids kept in place of the resolved ones.
RECURSIVE resolve_parents_kept(_)
resolve_parents_kept(parent_ids) ==
    IF parent_ids = <<>>
    THEN [gets |-> <<>>, error |-> None, ids |-> <<>>]
    ELSE parents_after([resolve_folder_id(IdOfText(Head(parent_ids)))
                           EXCEPT !.id = IdOfText(Head(parent_ids))],
                       resolve_parents_kept(Tail(parent_ids)))

\* Lines 971-974: the ids are resolved one after the other; the first failure
\* ends the loop.
RECURSIVE resolve_parents(_)
resolve_parents(parent_ids) ==
    IF parent_ids = <<>>
    THEN [gets |-> <<>>, error |-> None, ids |-> <<>>]
    ELSE parents_after(resolve_folder_id(IdOfText(Head(parent_ids))),
                       resolve_parents(Tail(parent_ids)))

\* ",".join(ids)
JoinCommas(ids) ==
    [i \in 1..(2 * Len(ids) - 1) |-> IF i % 2 = 1 THEN ids[(i + 1) \div 2] ELSE ","]

\* Line 975: the value returned for the outcome of the loop.
joined_parents(r) ==
    [gets |-> r.gets, error |-> r.error,
     value |-> IF r.error = None THEN Text(JoinCommas(r.ids)) ELSE Absent]

\* Lines 967-975 for the pieces of the argument.
resolve_parent_ids(parent_ids) ==
    IF parent_ids = <<>>
    THEN [gets |-> <<>>, error |-> None, value |-> Absent]
    ELSE joined_parents(resolve_parents(parent_ids))

\* Lines 964-975: _resolve_parent_arguments.
resolve_parent_arguments(parent_arg) ==
    IF ~TextTruthy(parent_arg)
    THEN [gets |-> <<>>, error |-> None, value |-> Absent]
    ELSE resolve_parent_ids(split_parent_ids(parent_arg.text))

\* The arguments that go into the body, under the body's key names.
body_arguments(a) ==
    [name |-> a.name,
     description |-> a.description,
     mimeType |-> a.mime_type,
     starred |-> a.starred,
     trashed |-> a.trashed,
     writersCanShare |-> a.writers_can_share,
     copyRequiresWriterPermission |-> a.copy_requires_writer_permission,
     properties |-> a.properties]

\* Lines 946-962 with each test written as a truth test: false, the empty
\* text and the empty dict are left out as well.
update_body_truthy(a) ==
    Without(body_arguments(a),
            {k \in DOMAIN body_arguments(a) :
                body_arguments(a)[k] \in {None, "", "False", "{}"}})

\* Lines 946-962: the body holds the arguments that are not None.
update_body(a) ==
    Without(body_arguments(a),
            {k \in DOMAIN body_arguments(a) : body_arguments(a)[k] = None})

\* Lines 981-999: the files().update request.
update_call(file_id, body, resolved_add_parents, resolved_remove_parents) ==
    Without([api |-> "files.update", site |-> "update_drive_file",
             fileId |-> file_id,
             supportsAllDrives |-> TRUE,
             addParents |-> IF TextTruthy(resolved_add_parents)
                            THEN resolved_add_parents.text ELSE <<>>,
             removeParents |-> IF TextTruthy(resolved_remove_parents)
                               THEN resolved_remove_parents.text ELSE <<>>,
             body |-> body],
            (IF TextTruthy(resolved_add_parents) THEN {} ELSE {"addParents"})
              \cup (IF TextTruthy(resolved_remove_parents) THEN {} ELSE {"removeParents"})
              \cup (IF DOMAIN body = {} THEN {"body"} ELSE {}))

\* What files().get answers for the fields update_drive_file asks of the
\* resolved item; None stands for a key the answer does not hold.
FileFields ==
    [doc1  |-> [name |-> "cur", description |-> None, parents |-> {"root"},
                starred |-> "False", trashed |-> "False",
                writersCanShare |-> "True", copyRequiresWriterPermission |-> "False",
                properties |-> None],
     pdf1  |-> [name |-> "cur", description |-> "d1", parents |-> {"folder1"},
                starred |-> "True", trashed |-> "False",
                writersCanShare |-> "False", copyRequiresWriterPermission |-> "True",
                properties |-> "{'k': 'v'}"],
     word1 |-> [name |-> "cur", description |-> "", parents |-> {"root", "folder1"},
                starred |-> "False", trashed |-> "True",
                writersCanShare |-> "True", copyRequiresWriterPermission |-> "True",
                properties |-> "{}"]]

UpdateIds == {"doc1", "pdf1", "word1", "sc_pdf1", "gone"}

\* x or ""
OrEmpty(x) == IF x = None THEN "" ELSE x

\* Lines 1016-1021: how a description is shown.
desc_display(x) == IF x \notin {None, ""} THEN x ELSE "(empty)"

\* One line of the report when the test holds.
ChangeIf(test, line) == IF test THEN <<line>> ELSE <<>>

\* Lines 1008-1051: the changes reported.
update_changes(a, current_file) ==
    ChangeIf(a.name # None /\ a.name # current_file.name,
             [field |-> "name", old |-> current_file.name, new |-> a.name])
    \o ChangeIf(a.description # None
                  /\ OrEmpty(current_file.description) # OrEmpty(a.description),
                [field |-> "description", old |-> desc_display(current_file.description),
                 new |-> desc_display(a.description)])
    \o ChangeIf(TextTruthy(a.add_parents),
                [field |-> "addParents", shown |-> a.add_parents])
    \o ChangeIf(TextTruthy(a.remove_parents),
                [field |-> "removeParents", shown |-> a.remove_parents])
    \o ChangeIf(a.starred # None /\ a.starred # current_file.starred,
                [field |-> "starred",
                 new |-> IF a.starred = "True" THEN "starred" ELSE "unstarred"])
    \o ChangeIf(a.trashed # None /\ a.trashed # current_file.trashed,
                [field |-> "trashed",
                 new |-> IF a.trashed = "True" THEN "moved to trash"
                         ELSE "restored from trash"])
    \o ChangeIf(a.writers_can_share # None
                  /\ a.writers_can_share # current_file.writersCanShare,
                [field |-> "writersCanShare",
                 new |-> IF a.writers_can_share = "True" THEN "can" ELSE "cannot"])
    \o ChangeIf(a.copy_requires_writer_permission # None
                  /\ a.copy_requires_writer_permission
                       # current_file.copyRequiresWriterPermission,
                [field |-> "copyRequiresWriterPermission",
                 new |-> IF a.copy_requires_writer_permission = "True"
                         THEN "requires" ELSE "doesn't require"])
    \o ChangeIf(a.properties \notin {None, "{}"},
                [field |-> "properties", new |-> a.properties])

\* The arguments when only the body's fields vary, and when only the parent
\* lists vary.
UpdateBodyArgs ==
    [file_id : UpdateIds,
     name : {None, "", "cur", "new"},
     description : {None, "", "d1"},
     mime_type : {None, MIME_TEXT},
     add_parents : {Absent},
     remove_parents : {Absent},
     starred : OptionalBool,
     trashed : OptionalBool,
     writers_can_share : OptionalBool,
     copy_requires_writer_permission : OptionalBool,
     properties : {None, "{}", "{'k': 'v'}"}]

UpdateParentArgs ==
    [file_id : {"pdf1", "sc_pdf1"},
     name : {None},
     description : {None},
     mime_type : {None},
     add_parents : ParentTexts,
     remove_parents : {Absent, Text(<<>>), Text(<<"folder1">>), Text(<<" ", ",">>),
                       Text(<<"sc_dir1", ",", "root">>), Text(<<"pdf1">>)},
     starred : {None},
     trashed : {None, "False"},
     writers_can_share : {None},
     copy_requires_writer_permission : {None},
     properties : {None}]

update_Init ==
    /\ op = "update_drive_file"
    /\ pc = "start"
    /\ args \in UpdateBodyArgs \cup UpdateParentArgs
    /\ local = NoLocals
    /\ env = [files |-> FileFields]
    /\ calls = <<>>
    /\ outcome = Running

\* Line 938: resolution of the file fails and the failure leaves the handler.
update_resolve_fails ==
    /\ op = "update_drive_file" /\ pc = "start"
    /\ LET r == resolve_drive_item(args.file_id)
       IN /\ r.error # None
          /\ calls' = calls \o r.gets
          /\ outcome' = [kind |-> "raise", error |-> r.error]
    /\ pc' = "done"
    /\ UNCHANGED <<op, args, local, env>>

\* Lines 938-962: the file is resolved, its current fields are kept and the
\* body is built.
update_resolved ==
    /\ op = "update_drive_file" /\ pc = "start"
    /\ LET r == resolve_drive_item(args.file_id)
       IN /\ r.error = None
          /\ calls' = calls \o r.gets
          /\ local' = [file_id |-> r.id,
                       current_file |-> env.files[r.id],
                       update_body |-> update_body(args)]
    /\ pc' = "parents"
    /\ UNCHANGED <<op, args, env, outcome>>

\* Lines 977-978: add_parents is resolved, then remove_parents; a failure of
\* the first leaves the second untried.
both_parents(add, remove) ==
    IF add.error # None
    THEN [gets |-> add.gets, error |-> add.error, add |-> Absent, remove |-> Absent]
    ELSE [gets |-> add.gets \o remove.gets, error |-> remove.error,
          add |-> add.value, remove |-> remove.value]

resolve_both_parents(a) ==
    both_parents(resolve_parent_arguments(a.add_parents),
                 resolve_parent_arguments(a.remove_parents))

\* As update_parent_fails, but the update is issued all the same.
update_parent_fails_updates ==
    /\ op = "update_drive_file" /\ pc = "parents"
    /\ LET parents == resolve_both_parents(args)
       IN /\ parents.error # None
          /\ calls' = (calls \o parents.gets)
                        \o <<update_call(local.file_id, local.update_body, Absent, Absent)>>
          /\ outcome' = [kind |-> "raise", error |-> parents.error]
    /\ pc' = "done"
    /\ UNCHANGED <<op, args, local, env>>

\* Lines 977-978: a folder named in add_parents or, after those, in
\* remove_parents fails to resolve.
update_parent_fails ==
    /\ op = "update_drive_file" /\ pc = "parents"
    /\ LET parents == resolve_both_parents(args)
       IN /\ parents.error # None
          /\ calls' = calls \o parents.gets
          /\ outcome' = [kind |-> "raise", error |-> parents.error]
    /\ pc' = "done"
    /\ UNCHANGED <<op, args, local, env>>

\* Lines 977-999: the parent lists are resolved and the update is issued.
update_parents_resolved ==
    /\ op = "update_drive_file" /\ pc = "parents"
    /\ LET parents == resolve_both_parents(args)
       IN /\ parents.error = None
          /\ local' = [file_id |-> local.file_id,
                       current_file |-> local.current_file,
                       update_body |-> local.update_body,
                       resolved_add_parents |-> parents.add,
                       resolved_remove_parents |-> parents.remove]
          /\ calls' = (calls \o parents.gets)
                        \o <<update_call(local.file_id, local.update_body,
                                         parents.add, parents.remove)>>
    /\ pc' = "update"
    /\ UNCHANGED <<op, args, env, outcome>>

\* Lines 997-1063: the update returns and the report is built.
update_returns ==
    /\ op = "update_drive_file" /\ pc = "update"
    /\ LET changes == update_changes(args, local.current_file)
       IN outcome' = [kind |-> "return", text |-> "Successfully updated file",
                      file_id |-> local.file_id,
                      changes |-> changes,
                      notice |-> IF changes # <<>> THEN "Changes applied:"
                                 ELSE "(No changes were made)"]
    /\ pc' = "done"
    /\ UNCHANGED <<op, args, local, env, calls>>

\* Lines 997-999: the update fails.
update_fails ==
    /\ op = "update_drive_file" /\ pc = "update"
    /\ outcome' = [kind |-> "raise", error |-> "HttpError"]
    /\ pc' = "done"
    /\ UNCHANGED <<op, args, local, env, calls>>

update_Next ==
    \/ update_resolve_fails
    \/ update_resolved
    \/ update_parent_fails
    \/ update_parents_resolved
    \/ update_returns
    \/ update_fails

SpecUpdate == update_Init /\ [][update_Next]_vars

(***************************************************************************)
(* get_drive_file_permissions                                              *)
(***************************************************************************)
\* Permissions an item may carry.
PermissionEntries ==
    {[type |-> "anyone", role |-> "reader"],
     [type |-> "user", role |-> "writer"],
     [type |-> "anyone", role |-> "owner"]}

\* What files().get may answer for the fields asked (lines 715-719); None
\* stands for a key the answer does not hold.
PermissionsMetadata ==
    [shared : BOOLEAN,
     sharingUser : {None, "Alice"},
     permissions : SUBSET PermissionEntries,
     webContentLink : {None, "content-link"}]

\* gdrive.drive_helpers.check_public_link_permission: some permission is of
\* type anyone.
check_public_link_permission(permissions) ==
    \E perm \in permissions : perm.type = "anyone"

\* The failures files().get may end in, with their messages.
GetFailures == {"HttpError 500", "TimeoutError"}

file_permissions_Init ==
    /\ op = "get_drive_file_permissions"
    /\ pc = "start"
    /\ args \in [file_id : CallerIds]
    /\ local = NoLocals
    /\ env \in [metadata : PermissionsMetadata]
    /\ calls = <<>>
    /\ outcome = Running

\* Line 707: resolution fails, outside the try block.
file_permissions_resolve_fails ==
    /\ op = "get_drive_file_permissions" /\ pc = "start"
    /\ LET r == resolve_drive_item(args.file_id)
       IN /\ r.error # None
          /\ calls' = calls \o r.gets
          /\ local' = [failure |-> r.error]
          /\ outcome' = [kind |-> "raise", error |-> r.error]
    /\ pc' = "done"
    /\ UNCHANGED <<op, args, env>>

\* Lines 707-721: the id is resolved and the metadata is asked for.
file_permissions_resolved ==
    /\ op = "get_drive_file_permissions" /\ pc = "start"
    /\ LET r == resolve_drive_item(args.file_id)
       IN /\ r.error = None
          /\ local' = [file_id |-> r.id]
          /\ calls' = (calls \o r.gets)
                        \o <<[api |-> "files.get", site |-> "get_drive_file_permissions",
                              fileId |-> r.id, supportsAllDrives |-> TRUE]>>
    /\ pc' = "get"
    /\ UNCHANGED <<op, args, env, outcome>>

\* Lines 712-785: the metadata arrives and is laid out.
file_permissions_get_returns ==
    /\ op = "get_drive_file_permissions" /\ pc = "get"
    /\ outcome' = [kind |-> "return", text |-> "File: ",
                   file_id |-> local.file_id,
                   shared |-> env.metadata.shared,
                   shared_by |-> env.metadata.sharingUser,
                   permissions |-> env.metadata.permissions,
                   direct_link |-> env.metadata.webContentLink,
                   has_public_link |-> check_public_link_permission(env.metadata.permissions)]
    /\ pc' = "done"
    /\ UNCHANGED <<op, args, local, env, calls>>

\* Lines 712-721 and 787-789: the request fails; the except clause returns
\* the message as the result.
file_permissions_get_fails ==
    /\ op = "get_drive_file_permissions" /\ pc = "get"
    /\ \E e \in GetFailures :
         /\ local' = [file_id |-> local.file_id, failure |-> e]
         /\ outcome' = [kind |-> "return", text |-> "Error getting file permissions: ",
                        details |-> e]
    /\ pc' = "done"
    /\ UNCHANGED <<op, args, env, calls>>

file_permissions_Next ==
    \/ file_permissions_resolve_fails
    \/ file_permissions_resolved
    \/ file_permissions_get_returns
    \/ file_permissions_get_fails

SpecFilePermissions == file_permissions_Init /\ [][file_permissions_Next]_vars

(***************************************************************************)
(* A download followed by an upload of what it saved.                      *)
(***************************************************************************)
\* get_drive_file_download_url has saved an item that needed no export and
\* returned its URL; create_drive_file is then called with that URL.
roundtrip_upload ==
    /\ op = "get_drive_file_download_url" /\ pc = "done"
    /\ outcome.kind = "return"
    /\ outcome.url # None
    /\ local.export_mime_type = None
    /\ \E i \in 1..Len(calls) :
         /\ calls[i].api = "storage.save_attachment"
         /\ env' = [temp_files |-> {}, attachment |-> calls[i].data]
    /\ op' = "create_drive_file"
    /\ pc' = "start"
    /\ args' = [file_name |-> "new.txt", content |-> None, folder_id |-> "root",
                mime_type |-> local.output_mime_type, fileUrl |-> outcome.url]
    /\ local' = NoLocals
    /\ outcome' = Running
    /\ UNCHANGED calls

SpecRoundTrip ==
    /\ download_Init \/ create_Init
    /\ [][download_Next \/ roundtrip_upload \/ create_Next]_vars

(***************************************************************************)
(* Specifications that run any one of several handlers.                    *)
(***************************************************************************)
\* A handler that resolves its id: a download handler or share_drive_file.
SpecResolve ==
    (download_Init \/ share_Init) /\ [][download_Next \/ share_Next]_vars

\* A handler that validates its input: share_drive_file,
\* update_drive_permission or create_drive_file.
SpecValidate ==
    /\ share_Init \/ permission_Init \/ create_Init
    /\ [][share_Next \/ permission_Next \/ create_Next]_vars

(***************************************************************************)
(* C2: every request a handler issues after resolution carries the id      *)
(* resolve returned: for a shortcut the id of its target and not its own,  *)
(* for any other item the caller's id; and the id acted on is never that   *)
(* of an item of shortcut type.                                            *)
(***************************************************************************)
IdCalls == {i \in OwnCalls : "fileId" \in DOMAIN calls[i]}

InputValidationFailures ==
    {"role", "share_type", "expiration_time", "url_scheme", "url_scheme_missing"}

C7_ValidationBeforeAnyCall ==
    (/\ op \in {"share_drive_file", "update_drive_permission", "create_drive_file"}
     /\ outcome.kind = "raise"
     /\ "validation" \in DOMAIN outcome
     /\ outcome.validation \in InputValidationFailures)
        => calls = <<>>

(***************************************************************************)
(* C8: share_drive_file with share_type user, group or domain and no       *)
(* share_with (absent or empty) ends in ValueError without any API call;   *)
(* with share_type anyone a missing share_with is no reason to reject, and *)
(* the handler goes on to resolve the id.                                  *)
(***************************************************************************)
C8_ShareWithRequired ==
    (op = "share_drive_file" /\ ~Truthy(args.share_with)) =>
        /\ args.share_type \in {"user", "group", "domain"} =>
             /\ calls = <<>>
             /\ pc \in {"start", "done"}
             /\ pc = "done" => outcome.kind = "raise" /\ outcome.error = "ValueError"
        /\ (args.share_type = "anyone" /\ pc = "done") =>
             /\ "validation" \in DOMAIN outcome => outcome.validation # "share_with"
             /\ validate_share_role(args.role) => calls # <<>>

\* A domain share without a domain name has been rejected.
C8_Witness ==
    /\ op = "share_drive_file" /\ pc = "done"
    /\ args.share_type = "domain" /\ args.share_with = None
    /\ validate_share_role(args.role)
    /\ outcome = ValueError("share_with")
    /\ calls = <<>>

(***************************************************************************)
(* C9: batch_share_drive_file takes the recipients in list order with at   *)
(* most one permissions.create outstanding, and whatever goes wrong for    *)
(* one recipient (a failed check or any failure of its request) is         *)
(* recorded for it and the later recipients are still processed: once the  *)
(* loop has started the batch is never aborted.                            *)
(***************************************************************************)
InLoop == "next" \in DOMAIN local

CreateCalls == {i \in 1..Len(calls) : calls[i].api = "permissions.create"}

C9_BatchNeverAborted ==
    (op = "batch_share_drive_file" /\ InLoop) =>
        /\ outcome.kind # "raise"
        /\ \A i \in 1..Len(local.results) : local.results[i].recipient = i
        /\ local.next = Len(local.results) + 1
        /\ Cardinality(CreateCalls) <= local.success_count + local.failure_count
                                          + (IF pc = "create" THEN 1 ELSE 0)
        /\ pc = "done" => Len(local.results) = Len(args.recipients)

(***************************************************************************)
(* C10: when batch_share_drive_file returns, the result holds one line per *)
(* recipient in the recipients' order, success_count + failure_count is    *)
(* the number of recipients, success_count is the number of permissions    *)
(* created, and a recipient with an invalid role has a failure line at its *)
(* own position.                                                           *)
(***************************************************************************)
C10_BatchResult ==
    (op = "batch_share_drive_file" /\ outcome.kind = "return") =>
        /\ Len(args.recipients) > 0
        /\ Len(outcome.results) = Len(args.recipients)
        /\ \A i \in 1..Len(outcome.results) : outcome.results[i].recipient = i
        /\ outcome.success_count + outcome.failure_count = Len(args.recipients)
        /\ outcome.success_count = Len(env.permissions)
        /\ outcome.success_count =
             Cardinality({i \in 1..Len(outcome.results) :
                             outcome.results[i].status = "created"})
        /\ \A i \in 1..Len(args.recipients) :
             (Truthy(args.recipients[i].email) /\ args.recipients[i].role = "admin")
                => outcome.results[i].status = "failed"

\* Three recipients, only the second with an invalid role: two successes and
\* one failure, the failure in the second place.
C10_Witness ==
    /\ op = "batch_share_drive_file" /\ outcome.kind = "return"
    /\ Len(args.recipients) = 3
    /\ args.recipients[2].role = "admin"
    /\ outcome.success_count = 2 /\ outcome.failure_count = 1
    /\ outcome.results[2].status = "failed"
    /\ outcome.results[1].status = "created" /\ outcome.results[3].status = "created"

(***************************************************************************)
(* Claims about create_drive_file                                          *)
(***************************************************************************)
FilesCreateCalls == {i \in 1..Len(calls) : calls[i].api = "files.create"}

HttpCalls == {i \in 1..Len(calls) : calls[i].api \in {"http.get", "http.stream"}}

FileUrlGiven == op = "create_drive_file" /\ Truthy(args.fileUrl)

(***************************************************************************)
(* C11: create_drive_file with a file:// URL whose path does not exist or  *)
(* is not a regular file ends in an error with no files.create call, and   *)
(* the message carries the deployment guidance exactly when the transport  *)
(* mode is streamable-http.                                                *)
(***************************************************************************)
C11_LocalPathRejected ==
    (/\ FileUrlGiven /\ UrlScheme(args.fileUrl) = "file"
     /\ "path_kind" \in DOMAIN local
     /\ local.path_kind \in {"missing", "directory"}) =>
        /\ pc = "done"
        /\ outcome.kind = "raise"
        /\ outcome.file_path = UrlFilePath(args.fileUrl)
        /\ FilesCreateCalls = {}
        /\ (outcome.extra # "") <=> (local.transport_mode = "streamable-http")

\* A directory named under streamable-http: rejected with the guidance.
C11_Witness ==
    /\ FileUrlGiven /\ args.fileUrl = "file://nas/a.txt"
    /\ pc = "done"
    /\ "path_kind" \in DOMAIN local
    /\ local.path_kind = "directory"
    /\ local.transport_mode = "streamable-http"
    /\ outcome.kind = "raise"
    /\ outcome.message = "Path is not a file: "
    /\ outcome.file_path = <<"/", "/", "nas", "/", "a.txt">>
    /\ outcome.extra # ""
    /\ FilesCreateCalls = {}

(***************************************************************************)
(* C12: under transport mode streamable-http, create_drive_file given a    *)
(* file:// URL ends in an error carrying the guidance about container-     *)
(* local paths, and no files.create call is issued.                        *)
(***************************************************************************)
C12_IsolatedFileUrlRejected ==
    (/\ FileUrlGiven /\ UrlScheme(args.fileUrl) = "file"
     /\ "transport_mode" \in DOMAIN local
     /\ local.transport_mode = "streamable-http") =>
        /\ FilesCreateCalls = {}
        /\ pc = "done"
        /\ outcome.kind = "raise"
        /\ "extra" \in DOMAIN outcome
        /\ outcome.extra # ""

(***************************************************************************)
(* C13: create_drive_file with a non-empty fileUrl whose scheme is not     *)
(* file, http or https always ends in an input-validation error: nothing   *)
(* is fetched, no files.create call is issued, and the inline content is   *)
(* not used even when it is supplied.                                      *)
(***************************************************************************)
C13_UnsupportedSchemeRejected ==
    (/\ FileUrlGiven
     /\ UrlScheme(args.fileUrl) \notin {"file", "http", "https"}) =>
        /\ HttpCalls = {}
        /\ FilesCreateCalls = {}
        /\ pc \in {"start", "done"}
        /\ pc = "done" =>
             /\ outcome.kind = "raise"
             /\ "validation" \in DOMAIN outcome
             /\ outcome.validation \in {"url_scheme", "url_scheme_missing"}

(***************************************************************************)
(* C14: for an http or https fileUrl the transfer strategy follows from    *)
(* stateless mode alone. Not stateless: the body is streamed in chunks of  *)
(* 256 KiB into a temporary file, no more than one chunk is in memory, and *)
(* the upload reads the rewound temporary file. Stateless: no temporary    *)
(* file exists at any time and the upload reads the whole body from        *)
(* memory.                                                                 *)
(***************************************************************************)
C14_TransferStrategy ==
    (FileUrlGiven /\ "stateless" \in DOMAIN local) =>
        IF local.stateless
        THEN /\ env.temp_files = {}
             /\ \A i \in HttpCalls : calls[i].api = "http.get"
             /\ \A i \in FilesCreateCalls :
                  /\ calls[i].media_body.source = "memory"
                  /\ "file_data" \in DOMAIN local
                  /\ local.file_data = Flatten(local.body)
                  /\ calls[i].media_body.bytes = local.file_data
        ELSE /\ "file_data" \notin DOMAIN local
             /\ \A i \in HttpCalls : calls[i].api = "http.stream"
             /\ "chunk" \in DOMAIN local =>
                  /\ local.chunk_size = 262144
                  /\ local.chunk = <<>> \/ \E k \in 1..Len(local.body) :
                                              local.chunk = local.body[k]
                  /\ Len(local.body) > 1 => local.chunk # Flatten(local.body)
                  /\ local.temp_file \o Flatten(local.pending) = Flatten(local.body)
             /\ \A i \in FilesCreateCalls :
                  /\ calls[i].media_body.source = "temp_file"
                  /\ calls[i].media_body.bytes = Flatten(local.body)
                  /\ local.position = 0

\* A body of two chunks has been streamed to the temporary file and the
\* upload reading all of it has been issued.
C14_Witness ==
    /\ FileUrlGiven /\ "stateless" \in DOMAIN local /\ ~local.stateless
    /\ pc = "upload"
    /\ local.body = << <<1>>, <<2, 3>> >>
    /\ local.chunk = <<2, 3>>
    /\ FilesCreateCalls # {}
    /\ \A i \in FilesCreateCalls :
         /\ calls[i].media_body.source = "temp_file"
         /\ calls[i].media_body.bytes = <<1, 2, 3>>

(***************************************************************************)
(* C15: for an http or https source the MIME type of the upload media and  *)
(* the mimeType of the created file's metadata are both the response's     *)
(* Content-Type when that header is present, non-empty and not             *)
(* application/octet-stream, and both the caller's mime_type otherwise.    *)
(***************************************************************************)
ExpectedMime ==
    IF local.content_type \notin {None, "", "application/octet-stream"}
    THEN local.content_type
    ELSE args.mime_type

C15_MimeFromHeader ==
    (FileUrlGiven /\ UrlScheme(args.fileUrl) \in {"http", "https"}) =>
        \A i \in FilesCreateCalls :
            /\ calls[i].media_body.mimetype = ExpectedMime
            /\ calls[i].body.mimeType = ExpectedMime
            /\ calls[i].media_body.mimetype = calls[i].body.mimeType

\* The generic type was answered and the caller's type was uploaded.
C15_Witness ==
    /\ FileUrlGiven /\ UrlScheme(args.fileUrl) = "https"
    /\ FilesCreateCalls # {}
    /\ local.content_type = "application/octet-stream"
    /\ \A i \in FilesCreateCalls :
         /\ calls[i].media_body.mimetype = "text/plain"
         /\ calls[i].body.mimeType = "text/plain"

(***************************************************************************)
(* C16: in the temporary-file path of create_drive_file no temporary file  *)
(* exists once the call has returned or raised, whichever way it ended,    *)
(* and the file exists from its creation until the upload reading it has   *)
(* finished.                                                               *)
(***************************************************************************)
C16_TempFileReleased ==
    op = "create_drive_file" =>
        /\ pc = "done" => env.temp_files = {}
        /\ ("stateless" \in DOMAIN local /\ ~local.stateless
              /\ pc \in {"http_stream", "http_body", "upload"})
             => "temp_file" \in env.temp_files

\* The upload from the temporary file failed and the file is gone.
C16_Witness ==
    /\ FileUrlGiven /\ "stateless" \in DOMAIN local /\ ~local.stateless
    /\ pc = "done"
    /\ outcome.kind = "raise" /\ outcome.error = "HttpError"
    /\ \E i \in FilesCreateCalls : calls[i].media_body.source = "temp_file"
    /\ env.temp_files = {}

(***************************************************************************)
(* C20: get_drive_file_download_url outside stateless mode, when the       *)
(* download completed and a step of the attachment store failed, does not  *)
(* raise: it returns a result of its own that says the file was downloaded *)
(* but could not be saved, with the size and the failure's message, and    *)
(* that carries neither a download URL nor the confirmation of a           *)
(* successful download.                                                    *)
(***************************************************************************)
C20_SaveFailureReported ==
    (/\ op = "get_drive_file_download_url" /\ pc = "done"
     /\ "store_failure" \in DOMAIN local
     /\ ~local.stateless /\ local.store_failure # None) =>
        /\ outcome.kind = "return"
        /\ outcome.text = "Error: Failed to save file for download."
        /\ outcome.text # "File downloaded successfully!"
        /\ outcome.note = "File was downloaded successfully but could not be saved."
        /\ outcome.size_bytes = Len(local.fh)
        /\ outcome.details = StoreErrorMessage(local.store_failure)
        /\ outcome.url = None
        /\ MediaCalls # {}

\* The attachment was handed to the store, the store failed, and the result
\* reports it.
C20_Witness ==
    /\ op = "get_drive_file_download_url" /\ pc = "done"
    /\ "store_failure" \in DOMAIN local
    /\ ~local.stateless /\ local.store_failure = "save_attachment"
    /\ StoreCalls # {}
    /\ outcome.kind = "return"
    /\ outcome.details = "disk full"
    /\ outcome.size_bytes = 2

(***************************************************************************)
(* Claims about update_drive_file                                          *)
(***************************************************************************)
UpdateCalls == {i \in 1..Len(calls) : calls[i].api = "files.update"}

BodyKeys == {"name", "description", "mimeType", "starred", "trashed",
             "writersCanShare", "copyRequiresWriterPermission", "properties"}

\* What the caller supplied for a key of the body.
Supplied(k) ==
    CASE k = "name" -> args.name
      [] k = "description" -> args.description
      [] k = "mimeType" -> args.mime_type
      [] k = "starred" -> args.starred
      [] k = "trashed" -> args.trashed
      [] k = "writersCanShare" -> args.writers_can_share
      [] k = "copyRequiresWriterPermission" -> args.copy_requires_writer_permission
      [] k = "properties" -> args.properties

SentBodyKeys(call) == IF "body" \in DOMAIN call THEN DOMAIN call.body ELSE {}

(***************************************************************************)
(* C17: the body of update_drive_file's update call holds a field exactly  *)
(* when the caller supplied a value other than None for it, false and the  *)
(* empty text included, and holds the supplied value, never the            *)
(* snapshot's; when nothing is supplied the call carries no body.          *)
(***************************************************************************)
C17_SparseBody ==
    op = "update_drive_file" =>
        \A i \in UpdateCalls :
            /\ SentBodyKeys(calls[i]) \subseteq BodyKeys
            /\ \A k \in BodyKeys : (k \in SentBodyKeys(calls[i])) <=> (Supplied(k) # None)
            /\ \A k \in SentBodyKeys(calls[i]) : calls[i].body[k] = Supplied(k)
            /\ ("body" \in DOMAIN calls[i]) <=> (\E k \in BodyKeys : Supplied(k) # None)

\* An empty description and starred = false were supplied for a file that
\* has a description and is starred: the body holds those two values only.
C17_Witness ==
    /\ op = "update_drive_file" /\ pc = "update"
    /\ args.description = "" /\ args.starred = "False"
    /\ local.current_file.description = "d1" /\ local.current_file.starred = "True"
    /\ \E i \in UpdateCalls :
         /\ DOMAIN calls[i].body = {"description", "starred"}
         /\ calls[i].body.description = ""
         /\ calls[i].body.starred = "False"

(***************************************************************************)
(* C18: a comma-separated add_parents or remove_parents is split on the    *)
(* commas, the pieces are trimmed and the empty ones dropped; the          *)
(* parameter sent holds the resolved id of each remaining piece (the       *)
(* target for a shortcut to a folder), in the same order and number,       *)
(* joined by commas; an argument without a non-empty piece sends no        *)
(* parameter.                                                              *)
(***************************************************************************)
IsIdAtom(a) == a \notin {",", " "}

\* The ids an argument names, in order.
NamedIds(arg) == IF arg.given THEN SelectSeq(arg.text, IsIdAtom) ELSE <<>>

\* The folder an id stands for.
TargetFolder(id) == IF id = "sc_dir1" THEN "folder1" ELSE id

ParentsSentFor(call, key, arg) ==
    /\ (key \in DOMAIN call) <=> (NamedIds(arg) # <<>>)
    /\ key \in DOMAIN call =>
         LET sent == call[key]
             want == NamedIds(arg)
         IN /\ Len(sent) = 2 * Len(want) - 1
            /\ \A k \in 1..Len(want) : sent[2 * k - 1] = TargetFolder(want[k])
            /\ \A k \in 1..(Len(want) - 1) : sent[2 * k] = ","

C18_ParentsResolved ==
    op = "update_drive_file" =>
        \A i \in UpdateCalls :
            /\ ParentsSentFor(calls[i], "addParents", args.add_parents)
            /\ ParentsSentFor(calls[i], "removeParents", args.remove_parents)
            /\ \A k \in 1..Len(NamedIds(args.add_parents)) :
                 NamedIds(args.add_parents)[k] # "root" =>
                    \E j \in 1..(i - 1) :
                       /\ calls[j].api = "files.get"
                       /\ calls[j].fileId = NamedIds(args.add_parents)[k]

\* A shortcut to a folder and the folder itself are added, root and the
\* shortcut's folder removed.
C18_Witness ==
    /\ op = "update_drive_file" /\ pc = "update"
    /\ args.add_parents = Text(<<"sc_dir1", ",", "folder1">>)
    /\ args.remove_parents = Text(<<"sc_dir1", ",", "root">>)
    /\ \E i \in UpdateCalls :
         /\ calls[i].addParents = <<"folder1", ",", "folder1">>
         /\ calls[i].removeParents = <<"folder1", ",", "root">>

(***************************************************************************)
(* C19: update_drive_file reports a change for a field only when the       *)
(* caller supplied it and the new value differs from the snapshot (an      *)
(* empty description equal to an absent one), for each of name,            *)
(* description, parents, starred, trashed, writersCanShare,                *)
(* copyRequiresWriterPermission and the custom properties; and it reports  *)
(* '(No changes were made)' exactly when no supplied value differs.        *)
(***************************************************************************)
ReportFields == {"name", "description", "addParents", "removeParents", "starred",
                 "trashed", "writersCanShare", "copyRequiresWriterPermission",
                 "properties"}

OrEmptyDict(x) == IF x = None THEN "{}" ELSE x

ResolvedIds(arg) ==
    {TargetFolder(NamedIds(arg)[k]) : k \in 1..Len(NamedIds(arg))}

\* The value supplied for the field differs from the snapshot's; properties
\* are merged into the file's, so an empty dict changes nothing.
Differs(field) ==
    CASE field = "description" ->
           /\ args.description # None
           /\ OrEmpty(args.description) # OrEmpty(local.current_file.description)
      [] field = "properties" ->
           /\ OrEmptyDict(args.properties) # "{}"
           /\ args.properties # OrEmptyDict(local.current_file.properties)
      [] field = "addParents" ->
           ResolvedIds(args.add_parents) \ local.current_file.parents # {}
      [] field = "removeParents" ->
           ResolvedIds(args.remove_parents) \cap local.current_file.parents # {}
      [] OTHER ->
           /\ Supplied(field) # None
           /\ Supplied(field) # local.current_file[field]

Reported(field) ==
    \E i \in 1..Len(outcome.changes) : outcome.changes[i].field = field

C19_ChangeReport ==
    (op = "update_drive_file" /\ outcome.kind = "return") =>
        /\ \A f \in ReportFields : Reported(f) => Differs(f)
        /\ (outcome.notice = "(No changes were made)")
              <=> (\A f \in ReportFields : ~Differs(f))

(***************************************************************************)
(* C21: the bytes the download loop produces for an item that needs no     *)
(* export are the chunks received, in order, up to completion; the bytes   *)
(* create_drive_file gives the upload are exactly those of its source      *)
(* (the UTF-8 encoding of the inline text, the local file's bytes, or the  *)
(* HTTP body's chunks in order from offset 0); so uploading what a         *)
(* download saved gives the same bytes.                                    *)
(***************************************************************************)
\* Chunk calls that returned a chunk.
ChunksReceived ==
    Cardinality(MediaCalls)
      - (IF pc = "done" /\ outcome.kind = "raise" THEN 1 ELSE 0)

SavedData == {calls[i].data : i \in StoreCalls}

C21_RoundTrip ==
    /\ (/\ op \in {"get_drive_file_content", "get_drive_file_download_url"}
        /\ "fh" \in DOMAIN local /\ local.export_mime_type = None) =>
          /\ Len(local.fh) = ChunksReceived
          /\ \A k \in 1..Len(local.fh) : <<local.fh[k]>> = ChunkBytes(k)
          /\ SavedData \subseteq {local.fh}
          /\ (pc = "done" /\ "content" \in DOMAIN outcome) => outcome.content = local.fh
    /\ op = "create_drive_file" =>
          \A i \in FilesCreateCalls :
             /\ calls[i].media_body.bytes =
                  (IF ~Truthy(args.fileUrl) THEN Utf8Encode(args.content)
                   ELSE IF UrlScheme(args.fileUrl) = "file" THEN LocalFileBytes
                   ELSE Flatten(local.body))
             /\ "attachment" \in DOMAIN env =>
                  /\ calls[i].media_body.bytes = env.attachment
                  /\ SavedData = {calls[i].media_body.bytes}

\* Two chunks were downloaded and saved; the URL served them as two chunks,
\* which went through the temporary file into the upload.
C21_Witness ==
    /\ op = "create_drive_file" /\ pc = "upload"
    /\ "attachment" \in DOMAIN env
    /\ env.attachment = <<1, 2>>
    /\ ~local.stateless
    /\ local.body = << <<1>>, <<2>> >>
    /\ \E i \in FilesCreateCalls :
         /\ calls[i].media_body.source = "temp_file"
         /\ calls[i].media_body.bytes = <<1, 2>>
    /\ \E j \in 1..Len(calls) : calls[j].api = "files.get_media"

(***************************************************************************)
(* C22: apart from the per-recipient errors of a batch and a failure to    *)
(* save a downloaded file, a collaborator call that fails inside an        *)
(* operation ends the operation in an error that carries the               *)
(* collaborator's message; it is never turned into a returned value.       *)
(***************************************************************************)
C22_FailuresSurface ==
    (/\ op \notin {"batch_share_drive_file", "get_drive_file_download_url"}
     /\ pc = "done"
     /\ "failure" \in DOMAIN local) =>
        /\ outcome.kind = "raise"
        /\ outcome.error = local.failure

(***************************************************************************)
(* C23: update_drive_file issues exactly one update call when it returns,  *)
(* carrying the body and both resolved parent lists; the call is issued    *)
(* only after the target id and every id named in add_parents and          *)
(* remove_parents were resolved, and nothing is called after it; when the  *)
(* target or a named parent does not resolve, no update call is issued.    *)
(***************************************************************************)
AllNamedParents == NamedIds(args.add_parents) \o NamedIds(args.remove_parents)

ResolutionFails ==
    \/ resolve_drive_item(args.file_id).error # None
    \/ \E k \in 1..Len(AllNamedParents) : resolve_folder_id(AllNamedParents[k]).error # None

LookedUpBefore(id, i) ==
    \E j \in 1..(i - 1) : calls[j].api = "files.get" /\ calls[j].fileId = id

C23_SingleUpdate ==
    op = "update_drive_file" =>
        /\ Cardinality(UpdateCalls) <= 1
        /\ (pc = "done" /\ outcome.kind = "return") => Cardinality(UpdateCalls) = 1
        /\ ResolutionFails => UpdateCalls = {}
        /\ \A i \in UpdateCalls :
             /\ i = Len(calls)
             /\ \A j \in 1..(i - 1) : calls[j].api = "files.get"
             /\ LookedUpBefore(args.file_id, i)
             /\ calls[i].fileId = resolve_drive_item(args.file_id).id
             /\ \A k \in 1..Len(AllNamedParents) :
                  AllNamedParents[k] # "root" => LookedUpBefore(AllNamedParents[k], i)
             /\ ("body" \in DOMAIN calls[i]) <=> (\E k \in BodyKeys : Supplied(k) # None)
             /\ ("addParents" \in DOMAIN calls[i]) <=> (NamedIds(args.add_parents) # <<>>)
             /\ ("removeParents" \in DOMAIN calls[i]) <=> (NamedIds(args.remove_parents) # <<>>)

\* A file reached through a shortcut is moved from one folder to another:
\* five lookups, then the one update.
C23_Witness ==
    /\ op = "update_drive_file" /\ pc = "done" /\ outcome.kind = "return"
    /\ args.file_id = "sc_pdf1"
    /\ NamedIds(args.add_parents) = <<"sc_dir1">>
    /\ NamedIds(args.remove_parents) = <<"folder1">>
    /\ Cardinality(UpdateCalls) = 1
    /\ Len(calls) = 6
    /\ calls[6].fileId = "pdf1"

\* A parent that is no folder stops the operation before the update.
C23_WitnessUnresolved ==
    /\ op = "update_drive_file" /\ pc = "done" /\ outcome.kind = "raise"
    /\ resolve_drive_item(args.file_id).error = None
    /\ ResolutionFails
    /\ Len(calls) > 1

(***************************************************************************)
(* C24: the download loop asks for one chunk per iteration and for none    *)
(* once the download is complete; it is left only when a chunk call        *)
(* reports completion or fails. When every chunk call returns and the      *)
(* server completes after finitely many chunks, the operation ends; a      *)
(* chunk call that does not return keeps the operation in the loop, as no  *)
(* other step leaves it.                                                   *)
(***************************************************************************)
ChunkRequests(cs) ==
    Cardinality({i \in 1..Len(cs) :
                    cs[i].api \in {"files.export_media", "files.get_media"}})

InChunkLoop == pc = "next_chunk"

ChunkLoopStep ==
    InChunkLoop =>
        /\ ~local.done
        /\ ChunkRequests(calls') = ChunkRequests(calls) + 1
        /\ pc' \in {"next_chunk", "done"}
        /\ pc' = "next_chunk" => (~local'.done /\ outcome' = Running)
        /\ pc' = "done" => (local'.done \/ outcome'.kind = "raise")

AfterCompletion ==
    ("done" \in DOMAIN local /\ local.done) =>
        ChunkRequests(calls') = ChunkRequests(calls)

C24_ChunkLoop ==
    /\ [][ChunkLoopStep /\ AfterCompletion]_vars
    /\ [](("done" \in DOMAIN local /\ local.done) => pc = "done")
    /\ InChunkLoop ~> (pc = "done")

\* A download of as many chunks as the server may send has ended.
C24_Witness ==
    /\ op = "get_drive_file_download_url" /\ pc = "done"
    /\ outcome.kind = "return"
    /\ local.done
    /\ ChunkRequests(calls) = MaxChunks
    /\ Len(local.fh) = MaxChunks

(***************************************************************************)
(* C25: the permission sent by share_drive_file and by                     *)
(* batch_share_drive_file holds emailAddress exactly for the types user    *)
(* and group and domain exactly for the type domain, so neither for        *)
(* anyone; allowFileDiscovery is sent only for domain and anyone, and the  *)
(* notification parameters only for user and group.                        *)
(***************************************************************************)
C25_PayloadFields ==
    op \in {"share_drive_file", "batch_share_drive_file"} =>
        \A i \in CreateCalls :
            LET body == calls[i].body
            IN /\ ("emailAddress" \in DOMAIN body) <=> (body.type \in {"user", "group"})
               /\ ("domain" \in DOMAIN body) <=> (body.type = "domain")
               /\ "allowFileDiscovery" \in DOMAIN body => body.type \in {"domain", "anyone"}
               /\ "sendNotificationEmail" \in DOMAIN calls[i] => body.type \in {"user", "group"}
               /\ "emailMessage" \in DOMAIN calls[i] => body.type \in {"user", "group"}

(***************************************************************************)
(* C26: for an http or https URL the buffered strategy of stateless mode   *)
(* and the temporary-file strategy do the same with the same response:     *)
(* a status other than 200 gives the same error and no files.create call;  *)
(* a status of 200 gives exactly one files.create call whose metadata,     *)
(* media MIME type and bytes are determined by the arguments and the       *)
(* response alone, whichever strategy ran.                                 *)
(***************************************************************************)
FetchFailed == outcome.kind = "raise" /\ "status" \in DOMAIN outcome

\* The upload the arguments and a response of status 200 call for.
UploadFor(a, folder, content_type, body) ==
    LET mime == IF content_type \notin {None, "", "application/octet-stream"}
                THEN content_type ELSE a.mime_type
    IN [metadata |-> [name |-> a.file_name, parents |-> <<folder>>, mimeType |-> mime],
        mimetype |-> mime,
        bytes |-> Flatten(body)]

UploadOf(call) ==
    [metadata |-> call.body,
     mimetype |-> call.media_body.mimetype,
     bytes |-> call.media_body.bytes]

C26_StrategiesEquivalent ==
    (op = "create_drive_file" /\ "stateless" \in DOMAIN local) =>
        /\ FetchFailed =>
             /\ FilesCreateCalls = {}
             /\ outcome = [kind |-> "raise", error |-> "Exception",
                           message |-> "Failed to fetch file from URL",
                           status |-> outcome.status]
             /\ outcome.status # 200
        /\ Cardinality(FilesCreateCalls) <= 1
        /\ pc = "upload" => FilesCreateCalls # {}
        /\ \A i \in FilesCreateCalls :
             UploadOf(calls[i]) = UploadFor(args, local.resolved_folder_id,
                                            local.content_type, local.body)

\* The temporary-file strategy received a body of two chunks with a PNG
\* header and issued the upload.
C26_Witness ==
    /\ op = "create_drive_file" /\ pc = "upload"
    /\ "stateless" \in DOMAIN local
    /\ ~local.stateless
    /\ local.content_type = "image/png"
    /\ Len(local.body) = 2
    /\ \E i \in FilesCreateCalls :
         /\ calls[i].media_body.mimetype = "image/png"
         /\ calls[i].media_body.bytes = Flatten(local.body)

\* The buffered strategy received the same response and issued the upload.
C26_WitnessStateless ==
    /\ op = "create_drive_file" /\ pc = "upload"
    /\ "stateless" \in DOMAIN local
    /\ local.stateless
    /\ local.content_type = "image/png"
    /\ Len(local.body) = 2
    /\ \E i \in FilesCreateCalls :
         /\ calls[i].media_body.mimetype = "image/png"
         /\ calls[i].media_body.bytes = Flatten(local.body)

(***************************************************************************)
(* C27: in batch_share_drive_file a recipient that fails a local check     *)
(* (no email for a share that is not a domain share, no domain for a       *)
(* domain share, an invalid role or share type, a malformed expiration     *)
(* time) gets no permissions.create call: the calls issued are those of    *)
(* the recipients that pass, in order, as many as pass when the batch      *)
(* returns and never more than there are recipients; an empty list ends    *)
(* in an error without any permissions.create call.                        *)
(***************************************************************************)
TypeOf(recipient) == IF recipient.share_type = None THEN "user" ELSE recipient.share_type

RoleOf(recipient) == IF recipient.role = None THEN "reader" ELSE recipient.role

IdentifierOf(recipient) ==
    IF TypeOf(recipient) = "domain" THEN recipient.domain ELSE recipient.email

PassesLocalChecks(recipient) ==
    /\ IdentifierOf(recipient) \notin {None, ""}
    /\ validate_share_role(RoleOf(recipient))
    /\ validate_share_type(TypeOf(recipient))
    /\ recipient.expiration_time \notin {None, ""} =>
          validate_expiration_time(recipient.expiration_time)

Passing == {i \in 1..Len(args.recipients) : PassesLocalChecks(args.recipients[i])}

\* The k-th recipient that passes, and the k-th permissions.create call.
KthPassing(k) == CHOOSE i \in Passing : Cardinality({j \in Passing : j <= i}) = k

KthCreate(k) == CHOOSE i \in CreateCalls : Cardinality({j \in CreateCalls : j <= i}) = k

C27_WitnessEmpty ==
    /\ op = "batch_share_drive_file" /\ pc = "done"
    /\ args.recipients = <<>>
    /\ outcome = ValueError("recipients")
    /\ calls # <<>>

(***************************************************************************)
(* C28: update_drive_permission fails before any call when neither a role  *)
(* nor an expiration time is supplied; with an expiration time only, it    *)
(* reads the permission's current role first and sends that role in the    *)
(* update, so the role stays as it was; the update's body holds            *)
(* expirationTime exactly when the caller supplied one.                    *)
(***************************************************************************)
Given(x) == x \notin {None, ""}

PermissionUpdates == {i \in 1..Len(calls) : calls[i].api = "permissions.update"}

PermissionGets == {i \in 1..Len(calls) : calls[i].api = "permissions.get"}

C28_ExpirationOnlyKeepsRole ==
    op = "update_drive_permission" =>
        /\ (~Given(args.role) /\ ~Given(args.expiration_time)) =>
              /\ calls = <<>>
              /\ pc = "done" => outcome = ValueError("role_or_expiration_time")
        /\ Cardinality(PermissionUpdates) <= 1
        /\ \A i \in PermissionUpdates :
              /\ ("expirationTime" \in DOMAIN calls[i].body) <=> Given(args.expiration_time)
              /\ Given(args.expiration_time) =>
                    calls[i].body.expirationTime = args.expiration_time
              /\ IF Given(args.role)
                 THEN /\ calls[i].body.role = args.role
                      /\ PermissionGets = {}
                 ELSE /\ calls[i].body.role = env.current_role
                      /\ \E j \in PermissionGets :
                            /\ j < i
                            /\ calls[j].fileId = calls[i].fileId
                            /\ calls[j].permissionId = calls[i].permissionId
        /\ (outcome.kind = "return" /\ ~Given(args.role)) => outcome.role = env.current_role

\* An expiration time alone was supplied for a permission of role commenter:
\* the role was read and sent back.
C28_Witness ==
    /\ op = "update_drive_permission" /\ pc = "done" /\ outcome.kind = "return"
    /\ args.role = None /\ args.expiration_time = "2025-01-15T00:00:00Z"
    /\ env.current_role = "commenter"
    /\ PermissionGets # {}
    /\ \E i \in PermissionUpdates :
          calls[i].body = [role |-> "commenter", expirationTime |-> "2025-01-15T00:00:00Z"]

(***************************************************************************)
(* C29: create_drive_file with neither content nor fileUrl (absent or      *)
(* empty) fails before any call, folder resolution included; with both,    *)
(* the content is ignored and the bytes uploaded are those behind the      *)
(* fileUrl; on every path at most one files.create call is issued, and     *)
(* exactly one when the operation returns.                                 *)
(***************************************************************************)
\* The bytes behind the fileUrl, once they were obtained.
BytesBehindUrl ==
    IF "body" \in DOMAIN local THEN Flatten(local.body) ELSE LocalFileBytes

C29_OneCreate ==
    op = "create_drive_file" =>
        /\ (~Given(args.content) /\ ~Given(args.fileUrl)) =>
              /\ calls = <<>>
              /\ pc = "done" => outcome = Exception("content_or_fileUrl")
        /\ Cardinality(FilesCreateCalls) <= 1
        /\ outcome.kind = "return" => Cardinality(FilesCreateCalls) = 1
        /\ \A i \in FilesCreateCalls :
              IF Given(args.fileUrl)
              THEN /\ calls[i].media_body.bytes = BytesBehindUrl
                   /\ \A c \in ContentTexts : calls[i].media_body.bytes # Utf8Encode(c)
              ELSE calls[i].media_body.bytes = Utf8Encode(args.content)

\* Content and an https URL were both supplied; the file created holds the
\* two bytes the URL served.
C29_Witness ==
    /\ op = "create_drive_file" /\ pc = "done" /\ outcome.kind = "return"
    /\ args.content = "hi" /\ args.fileUrl = "https://host/a.png"
    /\ Cardinality(FilesCreateCalls) = 1
    /\ \E i \in FilesCreateCalls : calls[i].media_body.bytes = <<2, 3>>

\* Neither was supplied: rejected with no call.
C29_WitnessNeither ==
    /\ op = "create_drive_file" /\ pc = "done"
    /\ args.content = "" /\ args.fileUrl = None
    /\ args.folder_id = "gone"
    /\ outcome = Exception("content_or_fileUrl")
    /\ calls = <<>>

====
